---- MODULE Spec2Model ----
(***************************************************************************)
(* Run orchestration of the multi-agent coding assistant.                  *)
(*                                                                         *)
(* Two packages of the repository drive runs:                              *)
(*   - kimi_coding_agent: AgentOrchestrator.execute with RunStore,          *)
(*     SnapshotManager and RunPackager, and the run command that calls it  *)
(*     (the variables named p_...);                                        *)
(*   - kimi_agent: the SQLiteRunStore and the WorkspaceManager under the   *)
(*     calls of their clients, and the run command's exit (the variables   *)
(*     named c_... and s_...).  The RunController that cli.py imports is   *)
(*     not part of the sources, so no run of it is modelled.               *)
(* A behaviour of Spec is a sequence of steps of one of the two.           *)
(*                                                                         *)
(* The other components are modelled on their own, each with its           *)
(* specification: the CommandRunner (r_...), the AgentOrchestrator of      *)
(* kimi_agent/orchestrator.py (o_...), the TestingAgent and the            *)
(* OpenAIClient (t_..., g_...), the WorkspaceManager (w_...) and the       *)
(* ArtifactPackager (k_...); so are three services of codex_chopan_app:    *)
(* EmailService (m_...), ProspectService (v_...) and the gateway's         *)
(* SlidingWindowRateLimiter (l_...).                                       *)
(***************************************************************************)
EXTENDS Integers, Sequences, FiniteSets, TLC

\* Number of runs one orchestrator instance executes, one after the other.
MaxRuns == 2

RunIds == 1..MaxRuns

\* cli/main.py _build_orchestrator: the fixed agent order.
Agents == <<"requirements", "coding", "testing", "documentation">>

AgentNames == {Agents[i] : i \in 1..Len(Agents)}

\* File contents are tags: Absent (no such file), a file the user had before
\* any run, a file written by run r, or a file of 0 bytes (a write that
\* failed after the file was opened).
Absent == "absent"
UserContent == "user"
Truncated == "empty"
\* The content of a file cut short: a proper, non-empty part of what was
\* being written.
Cut == "cut"
GenBy(r) == "run-" \o ToString(r)

MetaName(r) == "agent_run_" \o ToString(r) \o ".json"

FileNames == {"user.txt", "agent_plan.json", "test_plan.json", "agent_run_report.md"}
               \cup {MetaName(r) : r \in RunIds}

EmptyDir == [f \in FileNames |-> Absent]

\* A directory that does not exist / a zip file that does not exist.
NoDir == [exists |-> FALSE, files |-> EmptyDir]
Dir(files) == [exists |-> TRUE, files |-> files]
\* The entries of a directory.
Entries(files) == {f \in DOMAIN files : files[f] # Absent}
\* The directory holding the entries kept of files, and nothing else.
Only(files, kept) == Dir([f \in DOMAIN files |-> IF f \in kept THEN files[f] ELSE Absent])
\* A zip file that was cut short while it was written: it exists, and no
\* entry of it can be read.
CutArchive == [exists |-> TRUE, files |-> [f \in FileNames |-> Cut]]

VARIABLES
    impl,          \* which of the repository's two packages is running
    \* ---- kimi_coding_agent ----
    p_pc,          \* position of AgentOrchestrator.execute
    p_run,         \* run_id of the execution in progress (0: none)
    p_cfg,         \* RunConfig of the execution in progress
    p_idx,         \* index of the next agent of the for loop
    p_status,      \* local variable status
    p_shared,      \* local variable shared_state
    p_localSteps,  \* local variable steps
                   \* (the five above are as at Init while no execution is in progress)
    p_runs,        \* table runs of the RunStore
    p_steps,       \* table steps of the RunStore
    p_artifacts,   \* table artifacts of the RunStore
    p_target,      \* the target workspace directory
    p_snapshots,   \* <state_dir>/snapshots/<run_id>.zip
    p_dist,        \* <state_dir>/dist/<run_id>.zip
    p_calls,       \* history: the calls of agent.run of each run, and which raised
    p_restored,    \* history: runs for which SnapshotManager_restore_snapshot was called
    p_packaged,    \* history: runs for which RunPackager.package was called
    p_writes,      \* history: the statuses written to each runs row
    p_result,      \* the RunResult execute returned last
    p_exit,        \* the run command after execute returned: status and exit code
    \* ---- kimi_agent ----
    c_stepId,      \* the step_id record_step_start returned last
    c_runs,        \* table runs of the SQLiteRunStore
    c_steps,       \* table steps
    c_events,      \* table run_events
    c_target,      \* the target workspace directory
    c_snapshots,   \* <data_dir>/snapshots/<run_id>.zip
    c_restores,    \* <data_dir>/restores/<run_id>/
    c_exit,        \* the run command after execute returned: status and exit code
    \* ---- kimi_agent: CommandRunner ----
    r_dry_run,     \* CommandRunner._dry_run
    r_policy,      \* CommandRunner._policy
    r_logs,        \* the files of <run_dir>/logs/
    r_paths,       \* history: the log_path of the result of each call of run
                   \* ("None": the call raised and returned no result)
    r_last,        \* the last call of run: its inputs and its CommandResult
    \* ---- kimi_agent/orchestrator.py: AgentOrchestrator ----
    o_pc,          \* position of AgentOrchestrator.execute
    o_row,         \* status of the row of self.run_id in table runs
    o_seq,         \* number of persona steps add_step has stored
    o_outcome,     \* how execute ended: "returned" or "raised"
    \* ---- kimi_agent: TestingAgent and its OpenAIClient ----
    t_client,      \* the OpenAIClient: enabled, dry_run
    t_env,         \* the environment of the call: API key, SDK, API answer, tests
    t_out,         \* what TestingAgent.execute did: raised or returned its result
    \* ---- kimi_agent: WorkspaceManager called directly ----
    w_staged,      \* history: restores/<run_id> before and after each stage_restore
    \* ---- kimi_agent: ArtifactPackager called directly ----
    k_results,     \* the agent_results passed to package
    k_logs,        \* the *.log files of metadata["run.logs_dir"]
    k_out,         \* what package produced: PackagingResult.files and the archive
    \* ---- kimi_agent: OpenAIClient called directly ----
    g_client,      \* the OpenAIClient: model, temperature, max_output_tokens, ...
    g_env,         \* the environment of the call: API key, SDK, API answer
    g_out,         \* what generate_text did: the request it sent and its result
    \* ---- codex_chopan_app: EmailService ----
    m_campaigns,   \* EmailRepository._campaigns
    m_sent,        \* history: the arguments of each call of sendgrid.send
    m_calls,       \* history: the request and the campaign of each create_campaign
    \* ---- kimi_agent: SQLiteRunStore called directly ----
    s_artifacts,   \* table artifacts
    s_calls,       \* history: each call of the store, and what it raised
    \* ---- codex_chopan_app: ProspectService ----
    v_repo,        \* ProspectRepository._prospects
    v_snaps,       \* SnapshotStore._store
    v_uuids,       \* the number of uuid4 values drawn so far
    v_search,      \* search_client.search: the method of the class, or the test's
    v_calls,       \* history: the calls of the service, and what each raised
    \* ---- codex_chopan_app: SlidingWindowRateLimiter ----
    l_max_requests,   \* SlidingWindowRateLimiter.max_requests
    l_window_seconds, \* SlidingWindowRateLimiter.window_seconds
    l_clock,       \* time.monotonic()
    l_hits,        \* _hits: the deque of each key
    l_calls        \* history: the calls of allow, in the order the event loop ran them

pvars == <<p_pc, p_run, p_cfg, p_idx, p_status, p_shared, p_localSteps, p_runs,
           p_steps, p_artifacts, p_target, p_snapshots, p_dist, p_calls,
           p_restored, p_packaged, p_writes, p_result, p_exit>>

cvars == <<c_stepId, c_runs, c_steps, c_events, c_target, c_snapshots,
           c_restores, c_exit>>

rvars == <<r_dry_run, r_policy, r_logs, r_paths, r_last>>

ovars == <<o_pc, o_row, o_seq, o_outcome>>

tvars == <<t_client, t_env, t_out>>

wvars == <<w_staged>>

kvars == <<k_results, k_logs, k_out>>

gvars == <<g_client, g_env, g_out>>

mvars == <<m_campaigns, m_sent, m_calls>>

svars == <<s_artifacts, s_calls>>

vvars == <<v_repo, v_snaps, v_uuids, v_search, v_calls>>

lvars == <<l_max_requests, l_window_seconds, l_clock, l_hits, l_calls>>

xvars == <<kvars, gvars, mvars, svars, vvars, lvars>>

evars == <<rvars, ovars, tvars, wvars, xvars>>

vars == <<impl, pvars, cvars, evars>>

(***************************************************************************)
(* kimi_coding_agent: RunStore                                             *)
(***************************************************************************)
NoRow == [status |-> "none", completed_at |-> FALSE]

\* The next AUTOINCREMENT id of a table.
NextId(table) ==
    IF table = {} THEN 1
    ELSE 1 + (CHOOSE m \in {t.id : t \in table} : \A t \in table : t.id <= m)

\* INSERT OR REPLACE INTO runs(run_id, status, started_at, config_payload)
RunStore_record_run_start(runs, run_id) ==
    [runs EXCEPT ![run_id] = [status |-> "running", completed_at |-> FALSE]]

\* Variant: the UPDATE without its WHERE clause.
RunStore_finalize_run_NoWhere(runs, run_id, status) ==
    [r \in DOMAIN runs |->
        IF runs[r] # NoRow THEN [status |-> status, completed_at |-> TRUE]
        ELSE runs[r]]

\* UPDATE runs SET status = ?, completed_at = ? WHERE run_id = ?
RunStore_finalize_run(runs, run_id, status) ==
    [r \in DOMAIN runs |->
        IF r = run_id /\ runs[r] # NoRow
        THEN [status |-> status, completed_at |-> TRUE]
        ELSE runs[r]]

\* INSERT INTO steps(run_id, agent_name, status, started_at, completed_at, payload)
RunStore_record_step(steps, run_id, agent_name, status, payload) ==
    steps \cup {[id |-> NextId(steps), run_id |-> run_id, agent_name |-> agent_name,
                 status |-> status, payload |-> payload]}

\* INSERT INTO artifacts(run_id, artifact_type, path, description)
RunStore_record_artifact(artifacts, run_id, artifact_type, path) ==
    artifacts \cup {[id |-> NextId(artifacts), run_id |-> run_id,
                     artifact_type |-> artifact_type, path |-> path]}

\* Variant: ... ORDER BY id DESC
RECURSIVE OrderByIdDesc(_)
OrderByIdDesc(rows) ==
    IF rows = {} THEN <<>>
    ELSE LET last == CHOOSE r \in rows : \A q \in rows : q.id <= r.id
         IN  <<last>> \o OrderByIdDesc(rows \ {last})

\* ... ORDER BY id
RECURSIVE OrderById(_)
OrderById(rows) ==
    IF rows = {} THEN <<>>
    ELSE LET first == CHOOSE r \in rows : \A q \in rows : r.id <= q.id
         IN  <<first>> \o OrderById(rows \ {first})

AgentStepResult(row) ==
    [agent_name |-> row.agent_name, status |-> row.status, payload |-> row.payload]

\* RunStore.load_run: the run row and its steps, ordered by id.
RunStore_load_run(runs, steps, run_id) ==
    LET step_rows == OrderById({s \in steps : s.run_id = run_id})
    IN  [found  |-> runs[run_id] # NoRow,
         run_id |-> run_id,
         status |-> runs[run_id].status,
         steps  |-> [i \in 1..Len(step_rows) |-> AgentStepResult(step_rows[i])]]

(***************************************************************************)
(* kimi_coding_agent: SnapshotManager and RunPackager                      *)
(***************************************************************************)
\* shutil.make_archive(..., "zip", target_path); move to <run_id>.zip
SnapshotManager_create_snapshot(snapshots, run_id, target) ==
    [snapshots EXCEPT ![run_id] = Dir(target.files)]

\* Variant: the snapshot is extracted over the target without clearing it.
SnapshotManager_restore_snapshot_NoClear(snapshots, run_id, target) ==
    IF ~snapshots[run_id].exists THEN target
    ELSE Dir([f \in DOMAIN target.files |->
                IF snapshots[run_id].files[f] # Absent
                    THEN snapshots[run_id].files[f]
                    ELSE target.files[f]])

\* Clear the target directory, then extract the snapshot over it.
SnapshotManager_restore_snapshot(snapshots, run_id, target) ==
    IF ~snapshots[run_id].exists THEN target
    ELSE Dir(snapshots[run_id].files)

\* restore_snapshot raising part-way (snapshot.py 31-41): the targets it can
\* leave.  iterdir or an unlink raises with any non-empty part of the entries
\* (in the order of iterdir, which is the file system's) not yet removed;
\* or the target is cleared and the archive cannot be opened; or extractall
\* raises with some of the archive's entries (in the order of the archive)
\* extracted and the one it was writing absent, empty or cut short.
SnapshotManager_restore_snapshot_raises(snapshots, run_id, target) ==
    LET archive == snapshots[run_id].files
        kept == {Only(target.files, remaining) :
                    remaining \in SUBSET Entries(target.files) \ {{}}}
        extracted ==
            UNION {{Only(archive, done)} \cup
                   {Dir([Only(archive, done).files EXCEPT ![f] = content]) :
                        f \in Entries(archive) \ done, content \in {Truncated, Cut}} :
                   done \in SUBSET Entries(archive) \ {Entries(archive)}}
    IN  IF ~snapshots[run_id].exists THEN {}
        ELSE kept \cup {Dir(EmptyDir)} \cup extracted

\* snapshot_path.unlink() if it exists.
SnapshotManager_cleanup_snapshot(snapshots, run_id) ==
    IF snapshots[run_id].exists THEN [snapshots EXCEPT ![run_id] = NoDir]
    ELSE snapshots

\* RunPackager.package: write agent_run_<run_id>.json into the target, then
\* zip the target into dist/<run_id>.zip.
RunPackager_package_target(run_id, target) ==
    Dir([target.files EXCEPT ![MetaName(run_id)] = GenBy(run_id)])

RunPackager_package_dist(dist, run_id, target) ==
    [dist EXCEPT ![run_id] = Dir(RunPackager_package_target(run_id, target).files)]

(***************************************************************************)
(* kimi_coding_agent: the four agents                                      *)
(***************************************************************************)
NoPayload == [kind |-> "absent", status |-> "n/a"]
ErrorPayload == [kind |-> "error", status |-> "n/a"]
Context(kind) == [kind |-> kind, status |-> "n/a"]
TestingContext(status) == [kind |-> "testing", status |-> status]

EmptyShared == [a \in AgentNames |-> NoPayload]

\* What a call of agent.run did: it raised, or it returned payload; either
\* way the target directory and shared_state are as it left them.
Raised(shared, target) ==
    [raised |-> TRUE, payload |-> ErrorPayload, shared |-> shared, target |-> target]
\* Variant: the payload is stored under every agent's name.
Returned_UnderEveryName(name, payload, shared, target) ==
    [raised |-> FALSE, payload |-> payload,
     shared |-> [a \in AgentNames |-> payload], target |-> target]
Returned(name, payload, shared, target) ==
    [raised |-> FALSE, payload |-> payload,
     shared |-> [shared EXCEPT ![name] = payload], target |-> target]

WriteFile(target, name, content) ==
    Dir([target.files EXCEPT ![name] = content])

\* Path.write_text(name): open(name, "w") creates or truncates the file, then
\* the text is written.  io_error "open": the open raises, nothing changes;
\* "write": the write raises (EFBIG, ENOSPC) with no byte written and leaves
\* the file with 0 bytes; "cut": the write raises after a part of the text
\* has reached the file, which is left cut short.
WriteTextRaises(target, io_error) == io_error # "none" \/ ~target.exists

WriteTextFile(target, name, content, io_error) ==
    IF io_error = "open" \/ ~target.exists THEN target
    ELSE IF io_error = "write" THEN WriteFile(target, name, Truncated)
    ELSE IF io_error = "cut" THEN WriteFile(target, name, Cut)
    ELSE WriteFile(target, name, content)

\* discover_input_documents: FileNotFoundError when the path does not exist;
\* _load_document reads each document as UTF-8 and lets UnicodeDecodeError
\* and OSError pass.
discover_input_documents_raises(input_docs) ==
    input_docs \in {"missing", "unreadable"}

\* _summarize_requirements: if prompt: prompt.strip().splitlines()[0] is an
\* IndexError for a prompt that is not empty and holds only whitespace.
summarize_requirements_raises(prompt) == prompt = "blank"

\* RequirementsAgent.run: the documents are loaded if input_docs is given,
\* then the summary is built; shared_state gets its entry last.
RequirementsAgentRun(run_id, cfg, shared, target, env) ==
    IF cfg.input_docs # "none" /\ discover_input_documents_raises(cfg.input_docs)
        THEN Raised(shared, target)
    ELSE IF summarize_requirements_raises(cfg.prompt) THEN Raised(shared, target)
    ELSE Returned("requirements", Context("requirements"), shared, target)

\* CodingAgent.run: validates shared_state["requirements"] (its summary is
\* required), creates the target directory and writes agent_plan.json.
CodingAgentRun(run_id, cfg, shared, target, env) ==
    IF shared["requirements"] = NoPayload THEN Raised(shared, target)
    ELSE IF WriteTextRaises(Dir(target.files), env.io_error)
        THEN Raised(shared, WriteTextFile(Dir(target.files), "agent_plan.json",
                                          GenBy(run_id), env.io_error))
    ELSE Returned("coding", Context("coding"), shared,
                  WriteTextFile(Dir(target.files), "agent_plan.json",
                                GenBy(run_id), env.io_error))

\* TestingAgent.run: status is skipped without pytest on the path, failed
\* when pytest --version exits non-zero, succeeded otherwise; test_plan.json
\* is written and the status is returned, never raised.
TestingStatus(pytest) ==
    CASE pytest = "absent" -> "skipped"
      [] pytest = "broken" -> "failed"
      [] OTHER             -> "succeeded"

\* subprocess.run([pytest_path, "--version"], check=True, ...) is guarded by
\* except CalledProcessError only: an OSError of the launch (pytest "oserror":
\* the file which found cannot be executed) leaves run before the write.
TestingAgentRun(run_id, cfg, shared, target, env) ==
    IF env.pytest = "oserror" THEN Raised(shared, target)
    ELSE IF WriteTextRaises(target, env.io_error)
        THEN Raised(shared, WriteTextFile(target, "test_plan.json", GenBy(run_id),
                                          env.io_error))
    ELSE Returned("testing", TestingContext(TestingStatus(env.pytest)), shared,
                  WriteTextFile(target, "test_plan.json", GenBy(run_id),
                                env.io_error))

\* DocumentationAgent.run: validates the requirements context, writes
\* agent_run_report.md.
DocumentationAgentRun(run_id, cfg, shared, target, env) ==
    IF shared["requirements"] = NoPayload THEN Raised(shared, target)
    ELSE IF WriteTextRaises(target, env.io_error)
        THEN Raised(shared, WriteTextFile(target, "agent_run_report.md",
                                          GenBy(run_id), env.io_error))
    ELSE Returned("documentation", Context("documentation"), shared,
                  WriteTextFile(target, "agent_run_report.md", GenBy(run_id),
                                env.io_error))

AgentRun(name, run_id, cfg, shared, target, env) ==
    CASE name = "requirements" -> RequirementsAgentRun(run_id, cfg, shared, target, env)
      [] name = "coding"       -> CodingAgentRun(run_id, cfg, shared, target, env)
      [] name = "testing"      -> TestingAgentRun(run_id, cfg, shared, target, env)
      [] OTHER                 -> DocumentationAgentRun(run_id, cfg, shared, target, env)

\* The environment of one agent call: whether and where a file write fails
\* (OSError) and what the pytest executable does.
Envs == [io_error : {"none", "open", "write", "cut"},
         pytest : {"absent", "ok", "broken", "oserror"}]

\* agent.run left by a BaseException that is no Exception (KeyboardInterrupt,
\* SystemExit), which the except clause of pipeline.py 61 does not catch: it
\* strikes before the agent's write, in it or after it, so the target it
\* leaves is the one it found or one that a call of run can leave.
AgentRunInterrupted(name, run_id, cfg, shared, target) ==
    {target} \cup {AgentRun(name, run_id, cfg, shared, target, env).target :
                      env \in Envs}

\* RunConfig.input_docs: not given, an existing readable path, a path that is
\* missing, an existing path with a document that is not UTF-8.
\* RunConfig.prompt: a text, a text of whitespace only.
Configs == [input_docs : {"none", "ok", "missing", "unreadable"},
            prompt : {"text", "blank"}]
NoConfig == [input_docs |-> "none", prompt |-> "text"]

\* The target directory before the first run.
InitialTargets ==
    {NoDir, Dir(EmptyDir),
     Dir([EmptyDir EXCEPT !["user.txt"] = UserContent]),
     Dir([EmptyDir EXCEPT !["user.txt"] = UserContent,
                          !["agent_plan.json"] = UserContent])}

NoResult == [run_id |-> 0, status |-> "none", steps |-> <<>>]

(***************************************************************************)
(* kimi_coding_agent: AgentOrchestrator.execute                            *)
(***************************************************************************)
\* No run command has returned from execute yet.
NoExit == [called |-> FALSE, status |-> "none", code |-> 0]

PInit ==
    /\ p_pc = "idle"
    /\ p_run = 0
    /\ p_cfg = NoConfig
    /\ p_idx = 1
    /\ p_status = "succeeded"
    /\ p_shared = EmptyShared
    /\ p_localSteps = <<>>
    /\ p_runs = [r \in RunIds |-> NoRow]
    /\ p_steps = {}
    /\ p_artifacts = {}
    /\ p_target \in InitialTargets
    /\ p_snapshots = [r \in RunIds |-> NoDir]
    /\ p_dist = [r \in RunIds |-> NoDir]
    /\ p_calls = [r \in RunIds |-> <<>>]
    /\ p_restored = {}
    /\ p_packaged = {}
    /\ p_writes = [r \in RunIds |-> <<>>]
    /\ p_result = NoResult
    /\ p_exit = NoExit

\* uuid.uuid4().hex: an identifier no earlier run has.
NewRunId(runs) == 1 + Cardinality({r \in DOMAIN runs : runs[r] # NoRow})

\* execute, lines 45-47: a fresh run_id, record_run_start.  Each run is one
\* call of the run command, which has not exited yet.
P_RecordRunStart ==
    /\ p_pc = "idle"
    /\ NewRunId(p_runs) \in RunIds
    /\ \E cfg \in Configs :
        /\ p_cfg' = cfg
        /\ p_run' = NewRunId(p_runs)
        /\ p_runs' = RunStore_record_run_start(p_runs, NewRunId(p_runs))
        /\ p_writes' = [p_writes EXCEPT ![NewRunId(p_runs)] = Append(@, "running")]
    /\ p_pc' = "snapshot"
    /\ p_exit' = NoExit
    /\ UNCHANGED <<p_idx, p_status, p_shared, p_localSteps, p_steps, p_artifacts,
                   p_target, p_snapshots, p_dist, p_calls, p_restored, p_packaged,
                   p_result>>

\* execute, lines 48-53: mkdir of the target, create_snapshot, the locals.
P_CreateSnapshot ==
    /\ p_pc = "snapshot"
    /\ p_target' = Dir(p_target.files)
    /\ p_snapshots' = SnapshotManager_create_snapshot(p_snapshots, p_run, Dir(p_target.files))
    /\ p_shared' = EmptyShared
    /\ p_localSteps' = <<>>
    /\ p_status' = "succeeded"
    /\ p_idx' = 1
    /\ p_pc' = "loop"
    /\ UNCHANGED <<p_run, p_cfg, p_runs, p_steps, p_artifacts, p_dist, p_calls,
                   p_restored, p_packaged, p_writes, p_result, p_exit>>

\* An entry of the history of calls of agent.run: the agent, whether the call
\* raised, and whether what it raised is a BaseException that is no Exception.
AgentCall(name, raised, base) ==
    [agent_name |-> name, raised |-> raised, base |-> base]

\* Lines 58-65: the step is FAILED exactly when agent.run raised.
StepStatus(raised) == IF raised THEN "failed" ELSE "succeeded"

\* Lines 77-78: a failed step fails the run.
StatusAfterStep(status, step_status) ==
    IF step_status = "failed" THEN "failed" ELSE status

\* Variant: the loop without its break.
LoopEndsNoBreak(step_status, idx) == idx = Len(Agents)

\* Lines 55 and 77-79: the loop ends with the last agent, or at the break.
LoopEnds(step_status, idx) == step_status = "failed" \/ idx = Len(Agents)

\* One iteration of the for loop, lines 55-79.
P_AgentStep ==
    /\ p_pc = "loop"
    /\ \E r \in {AgentRun(Agents[p_idx], p_run, p_cfg, p_shared, p_target, env) :
                      env \in Envs} :
        LET name == Agents[p_idx]
            step_status == StepStatus(r.raised)
        IN  /\ p_calls' = [p_calls EXCEPT ![p_run] =
                   Append(@, AgentCall(name, r.raised, FALSE))]
            /\ p_shared' = r.shared
            /\ p_target' = r.target
            /\ p_steps' = RunStore_record_step(p_steps, p_run, name, step_status, r.payload)
            /\ p_localSteps' = Append(p_localSteps,
                   [agent_name |-> name, status |-> step_status, payload |-> r.payload])
            /\ p_status' = StatusAfterStep(p_status, step_status)
            /\ IF LoopEnds(step_status, p_idx)
               THEN p_pc' = "post" /\ p_idx' = p_idx
               ELSE p_pc' = "loop" /\ p_idx' = p_idx + 1
    /\ UNCHANGED <<p_run, p_cfg, p_runs, p_artifacts, p_snapshots, p_dist,
                   p_restored, p_packaged, p_writes, p_result, p_exit>>

\* Line 81: if status is RunStatus.FAILED.
RollsBack(status) == status = "failed"

\* Lines 81-82: a failed run restores the snapshot over the target.
P_Restore ==
    /\ p_pc = "post"
    /\ RollsBack(p_status)
    /\ p_target' = SnapshotManager_restore_snapshot(p_snapshots, p_run, p_target)
    /\ p_restored' = p_restored \cup {p_run}
    /\ p_pc' = "finalize"
    /\ UNCHANGED <<p_run, p_cfg, p_idx, p_status, p_shared, p_localSteps, p_runs,
                   p_steps, p_artifacts, p_snapshots, p_dist, p_calls, p_packaged,
                   p_writes, p_result, p_exit>>

\* Line 84: any other run is packaged.
P_Package ==
    /\ p_pc = "post"
    /\ ~RollsBack(p_status)
    /\ p_target' = RunPackager_package_target(p_run, p_target)
    /\ p_dist' = RunPackager_package_dist(p_dist, p_run, p_target)
    /\ p_packaged' = p_packaged \cup {p_run}
    /\ p_pc' = "artifact"
    /\ UNCHANGED <<p_run, p_cfg, p_idx, p_status, p_shared, p_localSteps, p_runs,
                   p_steps, p_artifacts, p_snapshots, p_calls, p_restored,
                   p_writes, p_result, p_exit>>

\* Line 85: record_artifact(run_id, "dist", archive_path, ...).
P_RecordArtifact ==
    /\ p_pc = "artifact"
    /\ p_artifacts' = RunStore_record_artifact(p_artifacts, p_run, "dist", p_run)
    /\ p_pc' = "cleanup"
    /\ UNCHANGED <<p_run, p_cfg, p_idx, p_status, p_shared, p_localSteps, p_runs,
                   p_steps, p_target, p_snapshots, p_dist, p_calls, p_restored,
                   p_packaged, p_writes, p_result, p_exit>>

\* Line 86: cleanup_snapshot.
P_CleanupSnapshot ==
    /\ p_pc = "cleanup"
    /\ p_snapshots' = SnapshotManager_cleanup_snapshot(p_snapshots, p_run)
    /\ p_pc' = "finalize"
    /\ UNCHANGED <<p_run, p_cfg, p_idx, p_status, p_shared, p_localSteps, p_runs,
                   p_steps, p_artifacts, p_target, p_dist, p_calls, p_restored,
                   p_packaged, p_writes, p_result, p_exit>>

\* execute is over, by return or by exception: its argument and locals are gone.
LocalsGone ==
    /\ p_cfg' = NoConfig
    /\ p_idx' = 1
    /\ p_status' = "succeeded"
    /\ p_shared' = EmptyShared
    /\ p_localSteps' = <<>>

\* Lines 88-100: finalize_run, and the RunResult returned.
P_Finalize ==
    /\ p_pc = "finalize"
    /\ p_runs' = RunStore_finalize_run(p_runs, p_run, p_status)
    /\ p_writes' = [p_writes EXCEPT ![p_run] = Append(@, p_status)]
    /\ p_result' = [run_id |-> p_run, status |-> p_status, steps |-> p_localSteps]
    /\ p_pc' = "idle"
    /\ LocalsGone
    /\ UNCHANGED <<p_run, p_steps,
                   p_artifacts, p_target, p_snapshots, p_dist, p_calls, p_restored,
                   p_packaged, p_exit>>

\* The runs execute left by an exception: their row stays running.
PropagatedRuns ==
    {r \in RunIds : p_runs[r].status = "running" /\ (r # p_run \/ p_pc = "idle")}

\* pipeline.py 47-89: an exception of record_run_start, mkdir,
\* create_snapshot, record_step, restore_snapshot, package, record_artifact,
\* cleanup_snapshot or finalize_run is not caught, nor is a BaseException of
\* agent.run: execute ends there, no RunResult returned, and what ran before
\* the failing call stays done.  The orchestrator can execute again
\* afterwards, and that execution can end in the same way.
P_Propagate ==
    /\ p_pc' = "idle"
    /\ LocalsGone
    /\ \/ \* line 47 (record_run_start) raises: no row, nothing done
          /\ p_pc = "idle"
          /\ NewRunId(p_runs) \in RunIds
          /\ UNCHANGED <<p_calls, p_target, p_snapshots, p_dist, p_restored,
                         p_packaged>>
       \/ \* line 48 (mkdir) raises, or line 49 (create_snapshot) after mkdir:
          \* make_archive raises with no archive in the snapshot directory yet;
          \* the move of snapshot.py 24, a copy between file systems, raises
          \* with the archive cut short, or complete when only the removal of
          \* the temporary file fails
          /\ p_pc = "snapshot"
          /\ \E made \in BOOLEAN, archive \in {"none", "cut", "complete"} :
                /\ archive # "none" => made
                /\ p_target' = IF made THEN Dir(p_target.files) ELSE p_target
                /\ p_snapshots' =
                      CASE archive = "cut" ->
                             [p_snapshots EXCEPT ![p_run] = CutArchive]
                        [] archive = "complete" ->
                             SnapshotManager_create_snapshot(p_snapshots, p_run,
                                                             Dir(p_target.files))
                        [] OTHER -> p_snapshots
          /\ UNCHANGED <<p_calls, p_dist, p_restored, p_packaged>>
       \/ \* line 67 (record_step) raises after agent.run of lines 59-65
          /\ p_pc = "loop"
          /\ \E r \in {AgentRun(Agents[p_idx], p_run, p_cfg, p_shared, p_target, env) :
                            env \in Envs} :
                    /\ p_calls' = [p_calls EXCEPT ![p_run] =
                           Append(@, AgentCall(Agents[p_idx], r.raised, FALSE))]
                    /\ p_target' = r.target
          /\ UNCHANGED <<p_snapshots, p_dist, p_restored, p_packaged>>
       \/ \* line 60 (agent.run) is left by a BaseException that line 61 does
          \* not catch: no step is recorded
          /\ p_pc = "loop"
          /\ p_target' \in AgentRunInterrupted(Agents[p_idx], p_run, p_cfg, p_shared,
                                                p_target)
          /\ p_calls' = [p_calls EXCEPT ![p_run] =
                            Append(@, AgentCall(Agents[p_idx], TRUE, TRUE))]
          /\ UNCHANGED <<p_snapshots, p_dist, p_restored, p_packaged>>
       \/ \* line 82 (restore_snapshot) raises part-way
          /\ p_pc = "post"
          /\ RollsBack(p_status)
          /\ p_target' \in SnapshotManager_restore_snapshot_raises(p_snapshots, p_run,
                                                                   p_target)
          /\ p_restored' = p_restored \cup {p_run}
          /\ UNCHANGED <<p_calls, p_snapshots, p_dist, p_packaged>>
       \/ \* line 84 (package) raises: at write_text of the metadata file
          \* (archiver.py 19), or at make_archive after it (archiver.py 24)
          \* with no archive yet or with the archive cut short
          /\ p_pc = "post"
          /\ ~RollsBack(p_status)
          /\ \E io_error \in {"none", "open", "write", "cut"} :
                /\ p_target' = WriteTextFile(p_target, MetaName(p_run), GenBy(p_run),
                                             io_error)
                /\ \E cut \in {c \in BOOLEAN : c => io_error = "none"} :
                      p_dist' = IF cut THEN [p_dist EXCEPT ![p_run] = CutArchive]
                                ELSE p_dist
          /\ p_packaged' = p_packaged \cup {p_run}
          /\ UNCHANGED <<p_calls, p_snapshots, p_restored>>
       \/ \* lines 85, 86, 89: record_artifact, cleanup_snapshot, finalize_run
          /\ p_pc \in {"artifact", "cleanup", "finalize"}
          /\ UNCHANGED <<p_calls, p_target, p_snapshots, p_dist, p_restored,
                         p_packaged>>
    /\ UNCHANGED <<p_run, p_runs, p_steps, p_artifacts, p_writes, p_result, p_exit>>

(***************************************************************************)
(* kimi_agent: SQLiteRunStore                                              *)
(***************************************************************************)
NullText == "NULL"

\* None, where a path is expected.
NoPath == "None"

NoRunRow == [status |-> "none", completed_at |-> FALSE,
             packaging_path |-> NullText, error |-> NullText]

\* AgentResult.to_dict() of no result: the column is NULL.
NoOutput == [name |-> "none", status |-> "none", details_status |-> "none"]

\* INSERT INTO runs (..., status, ...) VALUES (..., "running", ...): the columns
\* completed_at, packaging_path and error are left NULL.
\* Variant: INSERT OR REPLACE INTO runs, as kimi_coding_agent's RunStore does.
SQLiteRunStore_record_run_start_OrReplace(runs, run_id) ==
    [runs EXCEPT ![run_id] = [status |-> "running", completed_at |-> FALSE,
                              packaging_path |-> NullText, error |-> NullText]]

\* The column run_id is UNIQUE: the INSERT of a run_id the table holds raises
\* sqlite3.IntegrityError.
SQLiteRunStore_record_run_start_raises(runs, run_id) ==
    IF runs[run_id] # NoRunRow THEN "IntegrityError" ELSE "None"

SQLiteRunStore_record_run_start(runs, run_id) ==
    IF runs[run_id] # NoRunRow THEN runs
    ELSE [runs EXCEPT ![run_id] = [status |-> "running", completed_at |-> FALSE,
                                   packaging_path |-> NullText, error |-> NullText]]

\* Variant: the row of the run is deleted instead of updated.
SQLiteRunStore_record_run_complete_Delete(runs, run_id, status, packaging_path, error) ==
    [runs EXCEPT ![run_id] = NoRunRow]

\* UPDATE runs SET completed_at, status, packaging_path, error WHERE run_id = ?
\* packaging_path is str(packaging_path) if packaging_path else None.
SQLiteRunStore_record_run_complete(runs, run_id, status, packaging_path, error) ==
    IF runs[run_id] = NoRunRow THEN runs
    ELSE [runs EXCEPT ![run_id] =
            [status |-> status, completed_at |-> TRUE,
             packaging_path |-> IF packaging_path = NoPath THEN NullText
                                ELSE packaging_path,
             error |-> error]]

\* INSERT INTO steps (run_id, agent_name, started_at, status, input_payload):
\* status "running", output_payload and error NULL; returns cursor.lastrowid.
SQLiteRunStore_record_step_start(steps, run_id, agent_name) ==
    [steps |-> steps \cup {[id |-> NextId(steps), run_id |-> run_id,
                            agent_name |-> agent_name, status |-> "running",
                            completed_at |-> FALSE, output_payload |-> NoOutput,
                            error |-> NullText]},
     step_id |-> NextId(steps)]

\* Variant: output_payload is not among the columns set.
SQLiteRunStore_record_step_complete_NoOutput(steps, step_id, output_payload, status) ==
    {IF row.id = step_id
        THEN [row EXCEPT !.completed_at = TRUE, !.status = status]
        ELSE row : row \in steps}

\* UPDATE steps SET completed_at, status, output_payload WHERE id = ?
SQLiteRunStore_record_step_complete(steps, step_id, output_payload, status) ==
    {IF row.id = step_id
        THEN [row EXCEPT !.completed_at = TRUE, !.status = status,
                         !.output_payload = output_payload]
        ELSE row : row \in steps}

\* UPDATE steps SET completed_at, status = "failed", error WHERE id = ?
\* (output_payload is not among the columns set).
SQLiteRunStore_record_step_failed(steps, step_id, error) ==
    {IF row.id = step_id
        THEN [row EXCEPT !.completed_at = TRUE, !.status = "failed", !.error = error]
        ELSE row : row \in steps}

\* INSERT INTO run_events (run_id, event_type, message, payload_json, created_at)
SQLiteRunStore_record_event(events, run_id, event_type) ==
    Append(events, [run_id |-> run_id, event_type |-> event_type])

\* INSERT INTO artifacts (run_id, step_name, artifact_type, path, payload_json,
\* created_at)
SQLiteRunStore_record_artifact(artifacts, run_id, step_name, artifact_type) ==
    artifacts \cup {[id |-> NextId(artifacts), run_id |-> run_id,
                     step_name |-> step_name, artifact_type |-> artifact_type]}

(***************************************************************************)
(* kimi_agent: WorkspaceManager and ArtifactPackager                       *)
(***************************************************************************)
SnapshotPath(run_id) == "snapshots/" \o ToString(run_id) \o ".zip"

DistPath(run_id) == "dist/" \o ToString(run_id) \o ".zip"

\* create_snapshot: None if the target does not exist, else the archive
\* <snapshots>/<run_id>.zip of the target replaces any earlier one.
WorkspaceManager_create_snapshot(snapshots, run_id, target) ==
    IF ~target.exists
        THEN [snapshots |-> snapshots, snapshot_path |-> NoPath]
        ELSE [snapshots |-> [snapshots EXCEPT ![run_id] = Dir(target.files)],
              snapshot_path |-> SnapshotPath(run_id)]

\* The archive at snapshot_path, whichever run it was made for (NoDir: no
\* file at that path).
ArchiveAt(snapshots, snapshot_path) ==
    IF \E r \in DOMAIN snapshots : SnapshotPath(r) = snapshot_path
        THEN snapshots[CHOOSE r \in DOMAIN snapshots : SnapshotPath(r) = snapshot_path]
        ELSE NoDir

\* Variant: the archive is extracted over the restore directory as it is.
WorkspaceManager_stage_restore_Merge(restores, snapshots, run_id, snapshot_path) ==
    IF snapshot_path = NoPath \/ ~ArchiveAt(snapshots, snapshot_path).exists
        THEN restores
        ELSE [restores EXCEPT ![run_id] =
                Dir([f \in FileNames |->
                        IF ArchiveAt(snapshots, snapshot_path).files[f] # Absent
                            THEN ArchiveAt(snapshots, snapshot_path).files[f]
                            ELSE restores[run_id].files[f]])]

\* stage_restore: None if snapshot_path is None or no file; else
\* <restores>/<run_id> is removed, recreated and filled with the contents of
\* the archive at snapshot_path.
WorkspaceManager_stage_restore(restores, snapshots, run_id, snapshot_path) ==
    IF snapshot_path = NoPath \/ ~ArchiveAt(snapshots, snapshot_path).exists
        THEN restores
        ELSE [restores EXCEPT ![run_id] =
                Dir(ArchiveAt(snapshots, snapshot_path).files)]

(***************************************************************************)
(* kimi_agent: what the agents return                                      *)
(***************************************************************************)
\* AgentResult: name, status, and the status recorded in details
\* (scaffold_status for coding, status for testing).
AgentResult(name, status, details_status) ==
    [name |-> name, status |-> status, details_status |-> details_status]

\* TestingAgent.execute, lines 43-51: status and agent_status from the
\* CommandResult of the test command.
TestingAgentStatus(tests) ==
    IF tests = "missing-executable"
        THEN [status |-> "skipped", agent_status |-> "succeeded"]
        ELSE IF tests = "passed"
            THEN [status |-> "succeeded", agent_status |-> "succeeded"]
            ELSE [status |-> "failed", agent_status |-> "failed"]

\* The tables and directories of kimi_agent before any call.
CInit ==
    /\ c_stepId = 0
    /\ c_runs = [r \in RunIds |-> NoRunRow]
    /\ c_steps = {}
    /\ c_events = <<>>
    /\ c_target \in InitialTargets
    /\ c_snapshots = [r \in RunIds |-> NoDir]
    /\ c_restores = [r \in RunIds |-> NoDir]
    /\ c_exit = NoExit

(***************************************************************************)
(* kimi_agent: CommandRunner                                               *)
(***************************************************************************)
MaxCalls == 2

PACKAGE_INSTALL_PREFIXES ==
    {<<"npm", "install">>, <<"python", "-m", "pip", "install">>}

CLI_TOOL_PREFIXES == {<<"npm", "create">>}

SandboxPolicies == [allow_cli_tools : BOOLEAN, allow_package_installs : BOOLEAN]

SandboxPolicy == [allow_cli_tools |-> FALSE, allow_package_installs |-> FALSE]

\* The commands the callers of run are given here.
Commands ==
    { <<>>,
      <<"npm", "install">>,
      <<"python", "-m", "pip", "install", "-r", "requirements.txt">>,
      <<"npm", "create", "vite@latest">>,
      <<"npm", "run", "test", "--", "--watch=false">>,
      <<"python", "-m", "pytest", "-q",
        "tests/integration/test end to end pipeline with fixtures.py">> }

NoException == "None"

\* What subprocess.run(..., text=True) does when it is reached: it completes
\* with a return code and output, raises FileNotFoundError or another
\* OSError, or raises UnicodeDecodeError on output of the child that is not
\* valid in the locale encoding.
Launches ==
    { [kind |-> "completed", returncode |-> 0, stdout |-> "ok", stderr |-> "", errno |-> 0],
      [kind |-> "completed", returncode |-> 1, stdout |-> "", stderr |-> "boom", errno |-> 0],
      [kind |-> "FileNotFoundError", returncode |-> 0, stdout |-> "", stderr |-> "No such file or directory", errno |-> 2],
      [kind |-> "OSError", returncode |-> 0, stdout |-> "", stderr |-> "Permission denied", errno |-> 13],
      [kind |-> "UnicodeDecodeError", returncode |-> 0, stdout |-> "", stderr |-> "", errno |-> 0] }

NoReason == "None"

\* len(command) >= len(prefix) and all(a == b for a, b in zip(command, prefix))
HasPrefix(command, prefix) ==
    /\ Len(command) >= Len(prefix)
    /\ \A i \in 1..Len(prefix) : command[i] = prefix[i]

\* str.replace(old, new) for a one-character old.
RECURSIVE Replace(_, _, _)
Replace(text, old, new) ==
    IF text = "" THEN ""
    ELSE (IF SubSeq(text, 1, 1) = old THEN new ELSE SubSeq(text, 1, 1))
         \o Replace(SubSeq(text, 2, Len(text)), old, new)

\* sep.join(parts)
RECURSIVE Join(_, _)
Join(sep, parts) ==
    IF parts = <<>> THEN ""
    ELSE IF Len(parts) = 1 THEN parts[1]
    ELSE parts[1] \o sep \o Join(sep, Tail(parts))

Digit(n) == <<"0", "1", "2", "3", "4", "5", "6", "7", "8", "9">>[n + 1]

\* f"{index:02d}"
RECURSIVE Decimal(_)
Decimal(n) == IF n < 10 THEN Digit(n) ELSE Decimal(n \div 10) \o Digit(n % 10)

Format02d(index) == IF index < 10 THEN "0" \o Decimal(index) ELSE Decimal(index)

\* Variant: the executable lookup ahead of the policy gates.
CommandRunner_skip_reason_LookupFirst(command, policy, found) ==
    IF command = <<>> THEN "empty-command"
    ELSE IF command[1] \notin {"python", "py"} /\ ~found THEN "missing-executable"
    ELSE IF (\E prefix \in PACKAGE_INSTALL_PREFIXES : HasPrefix(command, prefix))
            /\ ~policy.allow_package_installs THEN "blocked-package-install"
    ELSE IF (\E prefix \in CLI_TOOL_PREFIXES : HasPrefix(command, prefix))
            /\ ~policy.allow_cli_tools THEN "blocked-cli"
    ELSE NoReason

\* CommandRunner._skip_reason; found: shutil.which(executable) is not None.
CommandRunner_skip_reason(command, policy, found) ==
    IF command = <<>> THEN "empty-command"
    ELSE IF (\E prefix \in PACKAGE_INSTALL_PREFIXES : HasPrefix(command, prefix))
            /\ ~policy.allow_package_installs THEN "blocked-package-install"
    ELSE IF (\E prefix \in CLI_TOOL_PREFIXES : HasPrefix(command, prefix))
            /\ ~policy.allow_cli_tools THEN "blocked-cli"
    ELSE IF command[1] \in {"python", "py"} THEN NoReason
    ELSE IF ~found THEN "missing-executable"
    ELSE NoReason

\* The safe name of a command: its non-empty parts, "/" and " " replaced
\* by "_", joined by "-", cut to 57 characters and "..." beyond 60.
SafeName(command) ==
    LET parts == SelectSeq(command, LAMBDA part : part # "")
        safe  == Join("-", [i \in 1..Len(parts) |->
                              Replace(Replace(parts[i], "/", "_"), " ", "_")])
    IN  IF Len(safe) > 60 THEN SubSeq(safe, 1, 57) \o "..." ELSE safe

\* CommandRunner._create_log_path; logs: the files glob("*.log") finds.
CommandRunner_create_log_path(logs, command) ==
    Format02d(Cardinality(logs) + 1) \o "-" \o SafeName(command) \o ".log"

\* Path.write_text: the file of that path is created or replaced.
WriteText(logs, path, text) ==
    {f \in logs : f.path # path} \cup {[path |-> path, text |-> text]}

CommandResult(command, return_code, stdout, stderr, skipped, log_path, reason) ==
    [command |-> command, return_code |-> return_code, stdout |-> stdout,
     stderr |-> stderr, skipped |-> skipped, log_path |-> log_path,
     reason |-> reason]

\* No CommandResult: the call raised, or no call was made.
NoCommandResult == CommandResult(<<>>, 0, "", "", FALSE, "", NoReason)

\* Variant: run without its dry-run branch.
CommandRunner_run_NoDryRun(logs, dry_run, policy, command, found, launch) ==
    LET log_path    == CommandRunner_create_log_path(logs, command)
        skip_reason == CommandRunner_skip_reason(command, policy, found)
        line        == Join(" ", command)
    IN  IF skip_reason # NoReason THEN
            [logs   |-> WriteText(logs, log_path,
                            "[skipped:" \o skip_reason
                            \o "] command not executed: " \o line \o "\n"),
             raised |-> NoException,
             launched |-> FALSE,
             result |-> CommandResult(command, 0, "", "", TRUE, log_path,
                                      skip_reason)]
        ELSE
            [logs   |-> WriteText(logs, log_path,
                            "$ " \o line \o "\n\nSTDOUT:\n" \o launch.stdout
                            \o "\n\nSTDERR:\n" \o launch.stderr),
             raised |-> NoException,
             launched |-> TRUE,
             result |-> CommandResult(command, launch.returncode, launch.stdout,
                                      launch.stderr, FALSE, log_path, NoReason)]

\* CommandRunner.run: the logs directory after the call, the result or the
\* exception the call let pass (lines 99 and 115 catch FileNotFoundError and
\* OSError only), and whether the call reached subprocess.run (launched).
CommandRunner_run(logs, dry_run, policy, command, found, launch) ==
    LET log_path    == CommandRunner_create_log_path(logs, command)
        skip_reason == CommandRunner_skip_reason(command, policy, found)
        line        == Join(" ", command)
    IN  IF skip_reason # NoReason THEN
            [logs   |-> WriteText(logs, log_path,
                            "[skipped:" \o skip_reason
                            \o "] command not executed: " \o line \o "\n"),
             raised |-> NoException,
             launched |-> FALSE,
             result |-> CommandResult(command, 0, "", "", TRUE, log_path,
                                      skip_reason)]
        ELSE IF dry_run THEN
            [logs   |-> WriteText(logs, log_path,
                            "[dry-run] command skipped: " \o line \o "\n"),
             raised |-> NoException,
             launched |-> FALSE,
             result |-> CommandResult(command, 0, "", "", TRUE, log_path,
                                      "dry-run")]
        ELSE IF launch.kind = "UnicodeDecodeError" THEN
            [logs   |-> logs,
             raised |-> launch.kind,
             launched |-> TRUE,
             result |-> NoCommandResult]
        ELSE IF launch.kind = "FileNotFoundError" THEN
            [logs   |-> WriteText(logs, log_path,
                            "[missing-executable] command failed: " \o line
                            \o "\n" \o launch.stderr \o "\n"),
             raised |-> NoException,
             launched |-> TRUE,
             result |-> CommandResult(command, 127, "", launch.stderr, TRUE,
                                      log_path, "missing-executable")]
        ELSE IF launch.kind = "OSError" THEN
            [logs   |-> WriteText(logs, log_path,
                            "[os-error] command failed: " \o line
                            \o "\n" \o launch.stderr \o "\n"),
             raised |-> NoException,
             launched |-> TRUE,
             result |-> CommandResult(command,
                                      IF launch.errno # 0 THEN launch.errno ELSE 1,
                                      "", launch.stderr, FALSE, log_path,
                                      "os-error")]
        ELSE
            [logs   |-> WriteText(logs, log_path,
                            "$ " \o line \o "\n\nSTDOUT:\n" \o launch.stdout
                            \o "\n\nSTDERR:\n" \o launch.stderr),
             raised |-> NoException,
             launched |-> TRUE,
             result |-> CommandResult(command, launch.returncode, launch.stdout,
                                      launch.stderr, FALSE, log_path, NoReason)]

NoCall == [command |-> <<>>, found |-> FALSE, launch |-> "none", called |-> FALSE,
           launched |-> FALSE, raised |-> NoException,
           result |-> NoCommandResult]

\* No CommandRunner has been constructed.
RIdle ==
    /\ r_dry_run = FALSE
    /\ r_policy = SandboxPolicy
    /\ r_logs = {}
    /\ r_paths = <<>>
    /\ r_last = NoCall

\* CommandRunner(run_dir, dry_run, policy): mkdir of a new run's logs/.
RInit ==
    /\ r_dry_run \in BOOLEAN
    /\ r_policy \in SandboxPolicies
    /\ r_logs = {}
    /\ r_paths = <<>>
    /\ r_last = NoCall

(***************************************************************************)
(* kimi_agent/orchestrator.py: AgentOrchestrator.execute                   *)
(***************************************************************************)
Personas == <<"requirements", "coding", "testing", "documentation">>

\* AgentOrchestrator.__init__: no row of self.run_id yet.
OInit ==
    /\ o_pc = "idle"
    /\ o_row = "none"
    /\ o_seq = 0
    /\ o_outcome = "none"

\* Variant: upsert_run that inserts a row and never updates one.
RunStore_upsert_run_InsertOnly(row, status) ==
    IF row = "none" THEN status ELSE row

\* RunStore.upsert_run: INSERT ... ON CONFLICT(run_id) DO UPDATE SET status.
RunStore_upsert_run(row, status) == status

\* Lines 64-73: upsert_run(status="running"), outside the try: an exception
\* of the store leaves execute at once, with no row written.
O_UpsertRunning ==
    /\ o_pc = "idle"
    /\ \E raised \in BOOLEAN :
        IF raised
            THEN o_row' = o_row /\ o_pc' = "done" /\ o_outcome' = "raised"
            ELSE /\ o_row' = RunStore_upsert_run(o_row, "running")
                 /\ o_pc' = "documents"
                 /\ o_outcome' = o_outcome
    /\ UNCHANGED o_seq

\* Lines 75-82, outside the try: load_documents, SandboxManager,
\* create_snapshot; an exception of any of them leaves execute at once.
O_Prepare ==
    /\ o_pc = "documents"
    /\ \E raised \in BOOLEAN :
        IF raised THEN o_pc' = "done" /\ o_outcome' = "raised"
        ELSE o_pc' = "personas" /\ o_outcome' = o_outcome
    /\ UNCHANGED <<o_row, o_seq>>

\* _run_persona_step inside the try: agent.run (244), add_step (248), the
\* step files (249), then the lines of execute up to the next step.  An
\* exception before add_step leaves no step row; one of _write_step_outputs
\* or of the lines after the step leaves the row add_step has committed.
O_PersonaStep ==
    /\ o_pc = "personas"
    /\ o_seq < Len(Personas)
    /\ \E raised \in {"no", "before add_step", "after add_step"} :
        IF raised = "before add_step" THEN o_pc' = "except" /\ o_seq' = o_seq
        ELSE IF raised = "after add_step"
            THEN o_pc' = "except" /\ o_seq' = o_seq + 1
        ELSE /\ o_seq' = o_seq + 1
             /\ o_pc' = IF o_seq + 1 = Len(Personas) THEN "persist" ELSE "personas"
    /\ UNCHANGED <<o_row, o_outcome>>

\* Lines 137-138: sandbox.cleanup, then _persist_success: upsert_run with
\* status "succeeded" followed by four add_artifact calls.
O_PersistSuccess ==
    /\ o_pc = "persist"
    /\ \E raised \in {"no", "cleanup", "add_artifact"} :
        /\ o_row' = IF raised = "cleanup" THEN o_row
                    ELSE RunStore_upsert_run(o_row, "succeeded")
        /\ o_pc' = IF raised = "no" THEN "return" ELSE "except"
    /\ UNCHANGED <<o_seq, o_outcome>>

\* Lines 141-148: return RunResult(...).
O_Return ==
    /\ o_pc = "return"
    /\ o_pc' = "done"
    /\ o_outcome' = "returned"
    /\ UNCHANGED <<o_row, o_seq>>

\* Lines 149-163: restore_snapshot, cleanup, upsert_run(status="failed"),
\* raise; an exception of the restore leaves the handler before the upsert.
O_Except ==
    /\ o_pc = "except"
    /\ \E raised \in BOOLEAN :
        o_row' = IF raised THEN o_row ELSE RunStore_upsert_run(o_row, "failed")
    /\ o_pc' = "done"
    /\ o_outcome' = "raised"
    /\ UNCHANGED o_seq

(***************************************************************************)
(* kimi_agent: OpenAIClient.generate_text and the analysis of TestingAgent *)
(***************************************************************************)
OpenAIClients == [enabled : BOOLEAN, dry_run : BOOLEAN]

\* api_key: os.getenv(api_key_env) is set; sdk: the import of openai and the
\* construction of its client; create: what client.responses.create does;
\* tests: the outcome of the test command.
AnalysisEnvs ==
    [api_key : BOOLEAN,
     sdk     : {"ok", "ImportError", "TypeError"},
     create  : {"text", "no-text", "raises"},
     tests   : {"missing-executable", "passed", "failed"}]

NoAnalysis == "None"

TextReturned(text) == [raised |-> NoException, text |-> text]

TextRaised(exception) == [raised |-> exception, text |-> ""]

\* OpenAIClient._ensure_client: a failed import is re-raised as RuntimeError;
\* an exception of OpenAI(**kwargs) or with_options is not caught.
OpenAIClient_ensure_client(env) ==
    IF env.sdk = "ImportError" THEN "RuntimeError"
    ELSE IF env.sdk = "ok" THEN NoException
    ELSE env.sdk

\* OpenAIClient.generate_text
OpenAIClient_generate_text(client, env) ==
    IF ~client.enabled \/ client.dry_run
        THEN TextReturned("[stubbed response for model gpt-5-mini] prompt")
    ELSE IF ~env.api_key
        THEN TextReturned("[missing api key for model gpt-5-mini] prompt")
    ELSE IF OpenAIClient_ensure_client(env) # NoException
        THEN TextRaised(OpenAIClient_ensure_client(env))
    ELSE IF env.create = "raises"
        THEN TextReturned("[openai error for model gpt-5-mini: timeout] prompt")
    ELSE IF env.create = "no-text"
        THEN TextReturned("Response(output=[])")
    ELSE TextReturned("verdict")

\* _generate_test_analysis: only RuntimeError is caught; text.strip() or None.
generate_test_analysis(client, env) ==
    LET generated == OpenAIClient_generate_text(client, env)
    IN  IF generated.raised = "RuntimeError"
            THEN [raised |-> NoException, analysis |-> NoAnalysis]
        ELSE IF generated.raised # NoException
            THEN [raised |-> generated.raised, analysis |-> NoAnalysis]
        ELSE [raised |-> NoException,
              analysis |-> IF generated.text = "" THEN NoAnalysis
                           ELSE generated.text]

NoExecution == [called |-> FALSE, raised |-> NoException, status |-> "none",
                analysis |-> NoAnalysis]

\* TestingAgent.execute without dry-run, lines 42-93: the test command, the
\* analysis, the AgentResult with details["analysis"] if there is one.
TestingAgent_execute(client, env) ==
    LET analysed == generate_test_analysis(client, env)
    IN  IF analysed.raised # NoException
            THEN [called |-> TRUE, raised |-> analysed.raised, status |-> "none",
                  analysis |-> NoAnalysis]
            ELSE [called |-> TRUE, raised |-> NoException,
                  status |-> TestingAgentStatus(env.tests).agent_status,
                  analysis |-> analysed.analysis]

\* No TestingAgent at work.
TIdle ==
    /\ t_client = [enabled |-> FALSE, dry_run |-> TRUE]
    /\ t_env = [api_key |-> FALSE, sdk |-> "ok", create |-> "text", tests |-> "passed"]
    /\ t_out = NoExecution

\* OpenAIClientFactory.create in any configuration and environment.
TInit ==
    /\ t_client \in OpenAIClients
    /\ t_env \in AnalysisEnvs
    /\ t_out = NoExecution

\* One call of TestingAgent.execute.
T_Execute ==
    /\ ~t_out.called
    /\ t_out' = TestingAgent_execute(t_client, t_env)
    /\ UNCHANGED <<impl, pvars, cvars, rvars, ovars, wvars, xvars, t_client, t_env>>

\* No stage_restore has been called.
WIdle == w_staged = [r \in RunIds |-> <<>>]

(***************************************************************************)
(* kimi_agent: ArtifactPackager.package and the bundle it writes           *)
(***************************************************************************)
\* str.endswith
EndsWith(s, suffix) ==
    /\ Len(s) >= Len(suffix)
    /\ SubSeq(s, Len(s) - Len(suffix) + 1, Len(s)) = suffix

\* The Python values an agent passes as the payload of an artifact: None, a
\* str, a list, a tuple and a dict with str keys (v: the items, for a dict
\* its key followed by its value).
PyNone == [py |-> "None", v |-> <<>>]

Payloads ==
    { PyNone,
      [py |-> "str", v |-> <<"ok">>],
      [py |-> "list", v |-> <<"fastapi", "uvicorn">>],
      [py |-> "tuple", v |-> <<"fastapi", "uvicorn">>],
      [py |-> "dict", v |-> <<"status", "passed">>] }

\* json.dumps: the JSON document of a Python value.  A tuple is written as
\* an array, exactly as a list is.
json_dumps(value) ==
    [json |-> CASE value.py = "None" -> "null"
                [] value.py = "str" -> "string"
                [] value.py = "list" -> "array"
                [] value.py = "tuple" -> "array"
                [] value.py = "dict" -> "object",
     v |-> value.v]

\* json.loads: the Python value of a JSON document.  An array is read as a
\* list.
json_loads(doc) ==
    [py |-> CASE doc.json = "null" -> "None"
              [] doc.json = "string" -> "str"
              [] doc.json = "array" -> "list"
              [] doc.json = "object" -> "dict",
     v |-> doc.v]

\* The content of a file of the bundle: json.dumps(payload, indent=2) or
\* str(payload).
JsonFile(payload) == [format |-> "json", doc |-> json_dumps(payload)]

TextFile(payload) == [format |-> "str", of |-> payload]

FixedFile(name) == [format |-> "fixed", of |-> name]

ArtifactTypes == {"application/json", "text/markdown"}

ArtifactFilenames == {"dependencies.json", "report"}

Artifacts == [type : ArtifactTypes, payload : Payloads]

\* result.artifacts: a dict from filenames to artifacts
ArtifactDicts ==
    UNION { [names -> Artifacts] : names \in SUBSET ArtifactFilenames }

AgentResults(name) == [name : {name}, artifacts : ArtifactDicts]

\* The condition of packaging.py line 85.
IsJsonArtifact(filename, artifact) ==
    EndsWith(artifact.type, "json") \/ EndsWith(filename, ".json")

\* str(Path("artifacts") / result.name / filename)
ArtifactEntry(name, filename) == "artifacts/" \o name \o "/" \o filename

LogEntry(log_name) == "logs/" \o log_name

\* The artifacts the loops of package write: those whose payload is not None.
WrittenArtifacts(agent_results) ==
    { <<i, filename>> \in (1..Len(agent_results)) \X ArtifactFilenames :
        /\ filename \in DOMAIN agent_results[i].artifacts
        /\ agent_results[i].artifacts[filename].payload # PyNone }

\* The mutant writes every payload with str, whatever the artifact's type
\* and filename.
ArtifactPackager_package_bundle_StrOnly(agent_results, logs) ==
    LET written == WrittenArtifacts(agent_results)
        entry(w) == ArtifactEntry(agent_results[w[1]].name, w[2])
        names == {"provenance.json", "manifest.json", "README.txt", "sbom.json"}
                 \cup { entry(w) : w \in written }
                 \cup { LogEntry(l) : l \in logs }
    IN  [files |-> names,
         archive |-> [n \in names |->
            IF \E w \in written : entry(w) = n
                THEN LET w == CHOOSE w \in written : entry(w) = n
                     IN  TextFile(agent_results[w[1]].artifacts[w[2]].payload)
                ELSE FixedFile(n)]]

\* ArtifactPackager.package, the files it adds to the temporary directory:
\* provenance.json, manifest.json, README.txt, one file per artifact with a
\* payload, sbom.json and the logs; the archive holds every file of the
\* directory, and files lists them, sorted and without duplicates.
ArtifactPackager_package_bundle(agent_results, logs) ==
    LET written == WrittenArtifacts(agent_results)
        entry(w) == ArtifactEntry(agent_results[w[1]].name, w[2])
        names == {"provenance.json", "manifest.json", "README.txt", "sbom.json"}
                 \cup { entry(w) : w \in written }
                 \cup { LogEntry(l) : l \in logs }
    IN  [files |-> names,
         archive |-> [n \in names |->
            IF \E w \in written : entry(w) = n
                THEN LET w == CHOOSE w \in written : entry(w) = n
                         filename == w[2]
                         artifact == agent_results[w[1]].artifacts[filename]
                     IN  IF IsJsonArtifact(filename, artifact)
                            THEN JsonFile(artifact.payload)
                            ELSE TextFile(artifact.payload)
                ELSE FixedFile(n)]]

NoBundle == [files |-> {}, archive |-> <<>>]

KIdle == k_results = <<>> /\ k_logs = {} /\ k_out = NoBundle

\* The results of one or two agents, each under its own name.
KInit ==
    /\ k_results \in
         { <<c>> : c \in AgentResults("coding") }
         \cup { <<t>> : t \in AgentResults("testing") }
         \cup { <<c, t>> : c \in AgentResults("coding"), t \in AgentResults("testing") }
    /\ k_logs \in {{}, {"001_npm.log"}}
    /\ k_out = NoBundle

\* One call of package(run_id, target_path, agent_results, metadata).
K_Package ==
    /\ k_out = NoBundle
    /\ k_out' = ArtifactPackager_package_bundle(k_results, k_logs)
    /\ UNCHANGED <<impl, pvars, cvars, rvars, ovars, tvars, wvars, gvars, mvars, svars, vvars, lvars,
                   k_results, k_logs>>

(***************************************************************************)
(* kimi_agent: OpenAIClient.generate_text and the request it sends         *)
(***************************************************************************)
\* max_output_tokens is Optional[int]: <<>> is None, <<n>> is n.
GenerateClients ==
    [model : {"gpt-5-mini"}, temperature : {"0.2", "0.9"},
     max_output_tokens : {<<>>, <<512>>}, enabled : BOOLEAN, dry_run : BOOLEAN]

GenerateEnvs ==
    [api_key : BOOLEAN,
     sdk     : {"ok", "ImportError", "TypeError"},
     create  : {"text", "no-text", "raises"}]

\* request_params of generate_text, lines 39-45: a dict
OpenAIClient_request_params(client, prompt) ==
    [key \in {"model", "input", "temperature"}
              \cup (IF client.max_output_tokens # <<>>
                        THEN {"max_output_tokens"} ELSE {}) |->
        CASE key = "model" -> client.model
          [] key = "input" -> prompt
          [] key = "temperature" -> client.temperature
          [] key = "max_output_tokens" -> client.max_output_tokens[1]]

\* generate_text reaches client.responses.create(**request_params).
OpenAIClient_calls_create(client, env) ==
    /\ client.enabled
    /\ ~client.dry_run
    /\ env.api_key
    /\ OpenAIClient_ensure_client(env) = NoException

NoGenerate == [called |-> FALSE, requests |-> <<>>, result |-> TextReturned("")]

GIdle ==
    /\ g_client = [model |-> "gpt-5-mini", temperature |-> "0.2",
                   max_output_tokens |-> <<>>, enabled |-> FALSE, dry_run |-> TRUE]
    /\ g_env = [api_key |-> FALSE, sdk |-> "ok", create |-> "text"]
    /\ g_out = NoGenerate

GInit ==
    /\ g_client \in GenerateClients
    /\ g_env \in GenerateEnvs
    /\ g_out = NoGenerate

\* One call of generate_text("prompt"); requests: the keyword arguments of
\* each call of client.responses.create.
G_GenerateText ==
    /\ ~g_out.called
    /\ g_out' = [called |-> TRUE,
                 requests |-> IF OpenAIClient_calls_create(g_client, g_env)
                                 THEN <<OpenAIClient_request_params(g_client, "prompt")>>
                                 ELSE <<>>,
                 result |-> OpenAIClient_generate_text(g_client, g_env)]
    /\ UNCHANGED <<impl, pvars, cvars, rvars, ovars, tvars, wvars, kvars, mvars, svars, vvars, lvars,
                   g_client, g_env>>

(***************************************************************************)
(* codex_chopan_app: EmailService.create_campaign                          *)
(***************************************************************************)
MaxCampaigns == 2

MaxAudience == 3

Addresses == {"one@example.com", "two@example.com"}

SeqsUpTo(S, n) == UNION { [1..k -> S] : k \in 0..n }

CampaignRequests ==
    [subject : {"Update"}, audience_segment : SeqsUpTo(Addresses, MaxAudience),
     body : {"Hello"},
     suppression_list : {<<>>, <<"one@example.com">>, <<"two@example.com">>,
                         <<"two@example.com", "one@example.com">>}]

\* email in list
InList(email, list) == \E i \in 1..Len(list) : list[i] = email

\* line 35
EmailService_suppressed(request) ==
    SelectSeq(request.audience_segment,
              LAMBDA email : InList(email, request.suppression_list))

\* The mutant sends to the whole audience.
EmailService_recipients_Everyone(request) == request.audience_segment

\* line 36
EmailService_recipients(request) ==
    SelectSeq(request.audience_segment,
              LAMBDA email : ~InList(email, EmailService_suppressed(request)))

\* lines 37-44; campaign_id: the n-th uuid4 of the process
EmailCampaign(campaign_id, request) ==
    [campaign_id |-> campaign_id, subject |-> request.subject,
     audience_segment |-> request.audience_segment, body |-> request.body,
     suppressed |-> EmailService_suppressed(request)]

\* EmailRepository.save
EmailRepository_save(campaigns, campaign) ==
    [id \in DOMAIN campaigns \cup {campaign.campaign_id} |->
        IF id = campaign.campaign_id THEN campaign ELSE campaigns[id]]

MInit == m_campaigns = <<>> /\ m_sent = <<>> /\ m_calls = <<>>

\* One call of create_campaign(request): the campaign is saved, sendgrid.send
\* is called when there is a recipient, and the campaign is returned.
M_CreateCampaign ==
    /\ Len(m_calls) < MaxCampaigns
    /\ \E request \in CampaignRequests :
        LET campaign == EmailCampaign(Len(m_calls) + 1, request)
            recipients == EmailService_recipients(request)
        IN  /\ m_campaigns' = EmailRepository_save(m_campaigns, campaign)
            /\ m_sent' = IF recipients # <<>>
                            THEN Append(m_sent, [campaign_id |-> campaign.campaign_id,
                                                 subject |-> campaign.subject,
                                                 body |-> campaign.body,
                                                 recipients |-> recipients])
                            ELSE m_sent
            /\ m_calls' = Append(m_calls, [request |-> request, campaign |-> campaign])
    /\ UNCHANGED <<impl, pvars, cvars, rvars, ovars, tvars, wvars, kvars, gvars, svars,
                   vvars, lvars>>

(***************************************************************************)
(* kimi_agent: the operations of SQLiteRunStore, called in any order       *)
(***************************************************************************)
MaxStoreCalls == 4

SInit == s_artifacts = {} /\ s_calls = <<>>

StoreCall(op, run_id, raised) == [op |-> op, run_id |-> run_id, raised |-> raised]

\* The step from this state is the call op of the store.
Calls(op) == Len(s_calls') = Len(s_calls) + 1 /\ s_calls'[Len(s_calls')].op = op

\* The run of the step a call names (0: the table has no step of that id).
StepRunId(steps, step_id) ==
    IF \E row \in steps : row.id = step_id
        THEN (CHOOSE row \in steps : row.id = step_id).run_id
        ELSE 0

\* What a direct call of the store leaves alone, the tables apart.
DirectFrame ==
    UNCHANGED <<impl, pvars, rvars, ovars, tvars, wvars, kvars, gvars, mvars, vvars,
                lvars, c_target, c_snapshots, c_restores, c_exit>>

\* record_run_start(run_id, ...), of a new run_id or of one already stored.
D_RecordRunStart ==
    /\ Len(s_calls) < MaxStoreCalls
    /\ \E run_id \in RunIds :
        /\ c_runs' = SQLiteRunStore_record_run_start(c_runs, run_id)
        /\ s_calls' = Append(s_calls, StoreCall("record_run_start", run_id,
                          SQLiteRunStore_record_run_start_raises(c_runs, run_id)))
    /\ UNCHANGED <<c_steps, c_stepId, c_events, s_artifacts>>
    /\ DirectFrame

\* The statuses a caller passes to record_run_complete.
CompletionStatuses == {"succeeded", "partial-success", "failed"}

\* record_run_complete(run_id, status, completed_at, packaging_path, error)
\* with any status and with or without a packaging path.
D_RecordRunComplete ==
    /\ Len(s_calls) < MaxStoreCalls
    /\ \E run_id \in RunIds, status \in CompletionStatuses, packaged \in BOOLEAN :
        LET packaging_path == IF packaged THEN DistPath(run_id) ELSE NoPath IN
        /\ c_runs' = SQLiteRunStore_record_run_complete(
                         c_runs, run_id, status, packaging_path, NullText)
        /\ s_calls' = Append(s_calls, StoreCall("record_run_complete", run_id, "None"))
    /\ UNCHANGED <<c_steps, c_stepId, c_events, s_artifacts>>
    /\ DirectFrame

\* record_step_start(run_id, agent_name, input_payload)
D_RecordStepStart ==
    /\ Len(s_calls) < MaxStoreCalls
    /\ \E run_id \in RunIds :
        /\ c_steps' = SQLiteRunStore_record_step_start(c_steps, run_id, "coding").steps
        /\ c_stepId' = SQLiteRunStore_record_step_start(c_steps, run_id, "coding").step_id
        /\ s_calls' = Append(s_calls, StoreCall("record_step_start", run_id, "None"))
    /\ UNCHANGED <<c_runs, c_events, s_artifacts>>
    /\ DirectFrame

\* record_step_complete(step_id, output_payload, status) with any step_id:
\* of a running step, of a step completed or failed before, of no step.
D_RecordStepComplete ==
    /\ Len(s_calls) < MaxStoreCalls
    /\ \E step_id \in 1..MaxStoreCalls :
        /\ c_steps' = SQLiteRunStore_record_step_complete(
                          c_steps, step_id,
                          AgentResult("coding", "succeeded", "succeeded"),
                          "succeeded")
        /\ s_calls' = Append(s_calls, StoreCall("record_step_complete",
                                                StepRunId(c_steps, step_id), "None"))
    /\ UNCHANGED <<c_runs, c_stepId, c_events, s_artifacts>>
    /\ DirectFrame

\* record_step_failed(step_id, error) with any step_id.
D_RecordStepFailed ==
    /\ Len(s_calls) < MaxStoreCalls
    /\ \E step_id \in 1..MaxStoreCalls :
        /\ c_steps' = SQLiteRunStore_record_step_failed(c_steps, step_id, "error")
        /\ s_calls' = Append(s_calls, StoreCall("record_step_failed",
                                                StepRunId(c_steps, step_id), "None"))
    /\ UNCHANGED <<c_runs, c_stepId, c_events, s_artifacts>>
    /\ DirectFrame

\* record_artifact(run_id, step_name, artifact_type, path, payload)
D_RecordArtifact ==
    /\ Len(s_calls) < MaxStoreCalls
    /\ \E run_id \in RunIds :
        /\ s_artifacts' = SQLiteRunStore_record_artifact(
                              s_artifacts, run_id, "coding", "application/json")
        /\ s_calls' = Append(s_calls, StoreCall("record_artifact", run_id, "None"))
    /\ UNCHANGED <<c_runs, c_steps, c_stepId, c_events>>
    /\ DirectFrame

\* record_event(run_id, event_type, message, payload)
D_RecordEvent ==
    /\ Len(s_calls) < MaxStoreCalls
    /\ \E run_id \in RunIds :
        /\ c_events' = SQLiteRunStore_record_event(c_events, run_id, "step_started")
        /\ s_calls' = Append(s_calls, StoreCall("record_event", run_id, "None"))
    /\ UNCHANGED <<c_runs, c_steps, c_stepId, s_artifacts>>
    /\ DirectFrame

(***************************************************************************)
(* codex_chopan_app: ProspectService                                       *)
(***************************************************************************)
MaxDiscovers == 2

MaxResults == 3

ALLOWED_DOMAINS == {"chopan.example.org", "arts.example.org", "story.ai"}

\* text[i], positions counted from 1.
CharAt(text, i) == SubSeq(text, i, i)

\* text[i - 1:]
From(text, i) == SubSeq(text, i, Len(text))

\* c in text, for a character c.
HasChar(text, c) == \E i \in 1..Len(text) : CharAt(text, i) = c

\* text.find(c, start - 1) + 1: the first position of c at or after start,
\* 0 when there is none.
Find(text, c, start) ==
    IF \E i \in start..Len(text) : CharAt(text, i) = c
        THEN CHOOSE i \in start..Len(text) :
                /\ CharAt(text, i) = c
                /\ \A j \in start..(i - 1) : CharAt(text, j) # c
        ELSE 0

\* part in text
Contains(text, part) ==
    \E i \in 1..(Len(text) - Len(part) + 1) : SubSeq(text, i, i + Len(part) - 1) = part

\* text.lstrip(chars)
RECURSIVE LStrip(_, _)
LStrip(text, chars) ==
    IF text # "" /\ CharAt(text, 1) \in chars THEN LStrip(From(text, 2), chars)
    ELSE text

\* text with every character of chars removed.
RECURSIVE Without(_, _)
Without(text, chars) ==
    IF text = "" THEN ""
    ELSE (IF CharAt(text, 1) \in chars THEN "" ELSE CharAt(text, 1))
            \o Without(From(text, 2), chars)

\* text.split(sep), i being the first position of sep in text.
RECURSIVE Split(_, _)
SplitAt(text, sep, i) ==
    IF i = 0 THEN <<text>>
    ELSE <<SubSeq(text, 1, i - 1)>> \o Split(From(text, i + 1), sep)

\* text.split(sep)
Split(text, sep) == SplitAt(text, sep, Find(text, sep, 1))

UpperLetters == "ABCDEFGHIJKLMNOPQRSTUVWXYZ"

LowerLetters == "abcdefghijklmnopqrstuvwxyz"

AsciiLetters == {CharAt(UpperLetters, i) : i \in 1..26} \cup {CharAt(LowerLetters, i) : i \in 1..26}

AsciiDigits == {"0", "1", "2", "3", "4", "5", "6", "7", "8", "9"}

\* c.lower(), of an ASCII character.
LowerChar(c) ==
    IF \E i \in 1..26 : CharAt(UpperLetters, i) = c
        THEN CharAt(LowerLetters, CHOOSE i \in 1..26 : CharAt(UpperLetters, i) = c)
        ELSE c

\* text.lower(), of ASCII text.
RECURSIVE Lower(_)
Lower(text) ==
    IF text = "" THEN ""
    ELSE LowerChar(CharAt(text, 1)) \o Lower(From(text, 2))

\* The whitespace str.split() separates at, of the characters a string here
\* can hold.
Whitespace == {" ", "\t", "\n", "\r", "\f"}

\* urllib.parse._WHATWG_C0_CONTROL_OR_SPACE, of the same characters.
C0_CONTROL_OR_SPACE == {" ", "\t", "\n", "\r", "\f"}

\* urllib.parse._UNSAFE_URL_BYTES_TO_REMOVE
UNSAFE_URL_BYTES_TO_REMOVE == {"\t", "\r", "\n"}

\* urllib.parse.scheme_chars
scheme_chars == AsciiLetters \cup AsciiDigits \cup {"+", "-", "."}

\* ipaddress._BaseV6._HEX_DIGITS
HEX_DIGITS == AsciiDigits \cup {"a", "b", "c", "d", "e", "f", "A", "B", "C", "D", "E", "F"}

\* ipaddress._BaseV4._parse_octet succeeds: decimal digits, at most three,
\* no leading zero, at most 255.
IsOctet(text) ==
    /\ text # ""
    /\ \A i \in 1..Len(text) : CharAt(text, i) \in AsciiDigits
    /\ Len(text) <= 3
    /\ text = "0" \/ CharAt(text, 1) # "0"
    /\ Len(text) = 3 =>
          \/ CharAt(text, 1) = "1"
          \/ /\ CharAt(text, 1) = "2"
             /\ \/ CharAt(text, 2) \in {"0", "1", "2", "3", "4"}
                \/ CharAt(text, 2) = "5" /\ CharAt(text, 3) \in {"0", "1", "2", "3", "4", "5"}

\* ipaddress._BaseV4._ip_int_from_string, after ip_str.split("."): four
\* octets.
IsOctets(octets) ==
    /\ Len(octets) = 4
    /\ \A i \in 1..4 : IsOctet(octets[i])

\* ipaddress.IPv4Address(text) succeeds.
IsIPv4Address(text) == text # "" /\ IsOctets(Split(text, "."))

\* ipaddress._BaseV6._parse_hextet succeeds: one to four hex digits.
IsHextet(text) ==
    /\ text # ""
    /\ \A i \in 1..Len(text) : CharAt(text, i) \in HEX_DIGITS
    /\ Len(text) <= 4

\* The positions of "::" in parts, the endpoints apart.
Skips(parts) == {i \in 2..(Len(parts) - 1) : parts[i] = ""}

\* _ip_int_from_string with a "::": parts_hi hextets before it and parts_lo
\* after it, an empty first or last part only next to it, and at least one
\* part skipped.
IsIPv6Skipped(parts, parts_hi, parts_lo) ==
    /\ parts[1] = "" => parts_hi = 0
    /\ parts[Len(parts)] = "" => parts_lo = 0
    /\ 8 - (parts_hi + parts_lo) >= 1
    /\ \A i \in 1..parts_hi : IsHextet(parts[i])
    /\ \A i \in (Len(parts) - parts_lo + 1)..Len(parts) : IsHextet(parts[i])

\* _ip_int_from_string with the "::" at position skip.
IsIPv6SkippedAt(parts, skip) ==
    IsIPv6Skipped(parts,
                  IF parts[1] = "" THEN skip - 2 ELSE skip - 1,
                  IF parts[Len(parts)] = "" THEN Len(parts) - skip - 1
                  ELSE Len(parts) - skip)

\* _ip_int_from_string, once an IPv4 suffix was turned into two hextets: at
\* most nine parts, at most one "::", and eight hextets when there is none.
IsIPv6Parts(parts) ==
    /\ Len(parts) <= 9
    /\ Cardinality(Skips(parts)) <= 1
    /\ IF Skips(parts) # {}
       THEN IsIPv6SkippedAt(parts, CHOOSE i \in Skips(parts) : TRUE)
       ELSE /\ Len(parts) = 8
            /\ \A i \in 1..8 : IsHextet(parts[i])

\* _ip_int_from_string, after ip_str.split(":"): at least three parts, and
\* a last part with a "." is an IPv4 address.
IsIPv6Split(split) ==
    /\ Len(split) >= 3
    /\ IF HasChar(split[Len(split)], ".")
       THEN /\ IsIPv4Address(split[Len(split)])
            /\ IsIPv6Parts(SubSeq(split, 1, Len(split) - 1) \o <<"0", "0">>)
       ELSE IsIPv6Parts(split)

\* ipaddress._BaseV6._ip_int_from_string succeeds.
IsIPv6Int(ip_str) == ip_str # "" /\ IsIPv6Split(Split(ip_str, ":"))

\* _split_scope_id, the "%" being at position i: after it a scope id that
\* is not empty and holds no "%".
IsIPv6Scoped(text, i) ==
    IF i = 0 THEN IsIPv6Int(text)
    ELSE /\ i < Len(text)
         /\ ~HasChar(From(text, i + 1), "%")
         /\ IsIPv6Int(SubSeq(text, 1, i - 1))

\* ipaddress.IPv6Address(text) succeeds.
IsIPv6Address(text) == ~HasChar(text, "/") /\ IsIPv6Scoped(text, Find(text, "%", 1))

\* urllib.parse._check_bracketed_host returns: an IPvFuture address
\* (\Av[a-fA-F0-9]+\..+\Z) or an IPv6 address.
check_bracketed_host(hostname) ==
    IF hostname # "" /\ CharAt(hostname, 1) = "v"
        THEN \E k \in 2..(Len(hostname) - 2) :
                /\ \A j \in 2..k : CharAt(hostname, j) \in HEX_DIGITS
                /\ CharAt(hostname, k + 1) = "."
        ELSE IsIPv6Address(hostname)

\* urlsplit: the scheme split off, the first ":" being at position i: the
\* scheme is letters, digits, "+", "-" and "." that start with a letter.
SchemeSplitAt(clean, i) ==
    IF /\ i > 1
       /\ CharAt(clean, 1) \in AsciiLetters
       /\ \A j \in 1..(i - 1) : CharAt(clean, j) \in scheme_chars
        THEN From(clean, i + 1)
        ELSE clean

\* urlsplit: the url stripped of leading control characters and spaces and
\* of every tab and line break, after its scheme.
AfterScheme(url) ==
    SchemeSplitAt(Without(LStrip(url, C0_CONTROL_OR_SPACE), UNSAFE_URL_BYTES_TO_REMOVE),
                  Find(Without(LStrip(url, C0_CONTROL_OR_SPACE),
                               UNSAFE_URL_BYTES_TO_REMOVE), ":", 1))

\* _splitnetloc(url, 2): the position of the first "/", "?" or "#" after
\* the "//", or the end.
NetlocEnd(rest) ==
    IF \A i \in 3..Len(rest) : ~(CharAt(rest, i) \in {"/", "?", "#"})
        THEN Len(rest) + 1
        ELSE CHOOSE i \in 3..Len(rest) :
                /\ CharAt(rest, i) \in {"/", "?", "#"}
                /\ \A j \in 3..(i - 1) : ~(CharAt(rest, j) \in {"/", "?", "#"})

\* urlsplit: the netloc of what follows the scheme.
NetlocOf(rest) ==
    IF Len(rest) >= 2 /\ SubSeq(rest, 1, 2) = "//"
        THEN SubSeq(rest, 3, NetlocEnd(rest) - 1)
        ELSE ""

\* urlparse(url).netloc: what follows a leading "//" of the url after its
\* scheme, up to the first "/", "?" or "#"; empty when there is no "//".
Netloc(url) == NetlocOf(AfterScheme(url))

\* text.partition(c)[0], the first c being at position i.
Before(text, i) == IF i = 0 THEN text ELSE SubSeq(text, 1, i - 1)

\* netloc.partition("[")[2].partition("]")[0]
BracketedHost(netloc) ==
    Before(From(netloc, Find(netloc, "[", 1) + 1),
           Find(From(netloc, Find(netloc, "[", 1) + 1), "]", 1))

\* urlsplit raises ValueError for this netloc: one bracket without the
\* other, or brackets around what is no IPv6 or IPvFuture address.
NetlocRaises(netloc) ==
    IF HasChar(netloc, "[") /\ HasChar(netloc, "]")
        THEN ~check_bracketed_host(BracketedHost(netloc))
        ELSE HasChar(netloc, "[") \/ HasChar(netloc, "]")

\* urlparse(url) raises ValueError.
urlparse_raises(url) == NetlocRaises(Netloc(url))

\* is_allowed(url): what it raises, and what it returns when it raises
\* nothing.
is_allowed(url) ==
    IF urlparse_raises(url) THEN [raised |-> "ValueError", allowed |-> FALSE]
    ELSE [raised |-> "None", allowed |-> Netloc(url) \in ALLOWED_DOMAINS]

\* CustomSearchClient.SAMPLE_DATA
SAMPLE_DATA ==
    << [organization |-> "Chopan Foundation", website |-> "https://chopan.example.org"],
       [organization |-> "Global Arts Alliance", website |-> "https://arts.example.org"],
       [organization |-> "AI Storytelling Lab", website |-> "https://story.ai"] >>

\* The position of the first whitespace of text, or the end.
WordEnd(text) ==
    IF \A i \in 1..Len(text) : ~(CharAt(text, i) \in Whitespace)
        THEN Len(text) + 1
        ELSE CHOOSE i \in 1..Len(text) :
                /\ CharAt(text, i) \in Whitespace
                /\ \A j \in 1..(i - 1) : ~(CharAt(text, j) \in Whitespace)

\* text.split(), of a text that starts with no whitespace.
RECURSIVE Words(_)
WordsOf(rest) ==
    IF rest = "" THEN <<>>
    ELSE <<SubSeq(rest, 1, WordEnd(rest) - 1)>> \o Words(From(rest, WordEnd(rest)))

\* text.split(): the words of the text.
Words(text) == WordsOf(LStrip(text, Whitespace))

\* The padding loop of search, lines 18-22, from item i of SAMPLE_DATA on.
RECURSIVE Padded(_, _, _)
PaddedWith(added, limit, i) ==
    IF Len(added) >= limit THEN added ELSE Padded(added, limit, i + 1)

Padded(results, limit, i) ==
    IF i > Len(SAMPLE_DATA) THEN results
    ELSE PaddedWith(IF \E j \in 1..Len(results) : results[j] = SAMPLE_DATA[i]
                        THEN results
                        ELSE Append(results, SAMPLE_DATA[i]),
                    limit, i)

\* results[:limit]
Sliced(results, limit) ==
    IF limit >= 0
        THEN SubSeq(results, 1, IF limit < Len(results) THEN limit ELSE Len(results))
        ELSE SubSeq(results, 1, Len(results) + limit)

\* search, lines 17-23: the results padded up to limit and cut at limit.
SearchResults(results, limit) ==
    Sliced(IF Len(results) < limit THEN Padded(results, limit, 1) ELSE results,
           limit)

\* search, lines 15-16, with the words of the lowered query: IndexError
\* when there is none, else the items whose organization holds the first.
SearchWords(words, limit) ==
    IF words = <<>>
        THEN [raised |-> "IndexError", results |-> <<>>]
        ELSE [raised |-> "None",
              results |-> SearchResults(
                              SelectSeq(SAMPLE_DATA,
                                  LAMBDA item :
                                      Contains(Lower(item.organization), words[1])),
                              limit)]

\* CustomSearchClient.search(query, limit): the items of SAMPLE_DATA whose
\* organization holds the first word of the query, padded with the others
\* up to limit and cut at limit; IndexError when the query has no word.
CustomSearchClient_search(query, limit) == SearchWords(Words(Lower(query)), limit)

\* tests/prospect/test_prospect_service.py, lines 19-20: the search the test
\* puts in place of CustomSearchClient.search.
fake_search(query, limit) ==
    [raised |-> "None",
     results |-> << [organization |-> "Bad", website |-> "https://blocked.example.com"] >>]

\* ProspectRepository.save: keyed by organization
ProspectRepository_save(prospects, prospect) ==
    [o \in DOMAIN prospects \cup {prospect.organization} |->
        IF o = prospect.organization THEN prospect ELSE prospects[o]]

\* SnapshotStore.create: a new Snapshot under a fresh snapshot_id
SnapshotStore_create(store, snapshot_id, artifacts) ==
    Append(store, [snapshot_id |-> snapshot_id, artifacts |-> artifacts])

\* Prospect(organization, website, score, provenance_key=str(uuid4()), ...)
Prospect(result, uuid) ==
    [organization |-> result.organization, website |-> result.website,
     provenance_key |-> uuid]

\* Variant: every result is saved before its website is checked.
RECURSIVE DiscoverFrom_SaveFirst(_, _, _, _)
DiscoverResult_SaveFirst(repo, uuids, raw_results, i, checked) ==
    IF checked.raised # "None"
        THEN [repo |-> repo, uuids |-> uuids, raised |-> checked.raised]
    ELSE IF ~checked.allowed
        THEN [repo |-> repo, uuids |-> uuids, raised |-> "HTTPException"]
    ELSE DiscoverFrom_SaveFirst(repo, uuids, raw_results, i + 1)

DiscoverFrom_SaveFirst(repo, uuids, raw_results, i) ==
    IF i > Len(raw_results)
        THEN [repo |-> repo, uuids |-> uuids, raised |-> "None"]
    ELSE DiscoverResult_SaveFirst(
            ProspectRepository_save(repo, Prospect(raw_results[i], uuids + 1)),
            uuids + 1, raw_results, i, is_allowed(raw_results[i].website))

\* The loop of discover, lines 37-51, from result i on.
RECURSIVE DiscoverFrom(_, _, _, _)
\* Lines 38-51 for result i, checked being what is_allowed gave for its
\* website: a ValueError of urlparse is not caught, a website that is not
\* allowed raises HTTPException, and an allowed one is saved.
DiscoverResult(repo, uuids, raw_results, i, checked) ==
    IF checked.raised # "None"
        THEN [repo |-> repo, uuids |-> uuids, raised |-> checked.raised]
    ELSE IF ~checked.allowed
        THEN [repo |-> repo, uuids |-> uuids, raised |-> "HTTPException"]
    ELSE DiscoverFrom(
            ProspectRepository_save(repo, Prospect(raw_results[i], uuids + 1)),
            uuids + 1, raw_results, i + 1)

DiscoverFrom(repo, uuids, raw_results, i) ==
    IF i > Len(raw_results)
        THEN [repo |-> repo, uuids |-> uuids, raised |-> "None"]
    ELSE DiscoverResult(repo, uuids, raw_results, i,
                        is_allowed(raw_results[i].website))

\* The attribute search of the service's search_client.
Searches == {"CustomSearchClient.search", "fake_search"}

\* self.search_client.search(query, limit)
Search(search, query, limit) ==
    IF search = "fake_search" THEN fake_search(query, limit)
    ELSE CustomSearchClient_search(query, limit)

\* discover, line 52, after the loop: the snapshot of the results, unless
\* the loop raised.
DiscoverEnd(snaps, raw_results, loop) ==
    IF loop.raised # "None"
        THEN [repo |-> loop.repo, snaps |-> snaps, uuids |-> loop.uuids,
              raised |-> loop.raised]
        ELSE [repo |-> loop.repo,
              snaps |-> SnapshotStore_create(snaps, loop.uuids + 1, raw_results),
              uuids |-> loop.uuids + 1, raised |-> "None"]

\* discover, lines 36-53, found being what the search gave.
DiscoverFound(repo, snaps, uuids, found) ==
    IF found.raised # "None"
        THEN [repo |-> repo, snaps |-> snaps, uuids |-> uuids, raised |-> found.raised]
        ELSE DiscoverEnd(snaps, found.results,
                         DiscoverFrom(repo, uuids, found.results, 1))

\* ProspectService.discover(query, limit): the repository, the snapshot
\* store and the uuid4 count after the call, and what it raised.
ProspectService_discover(repo, snaps, uuids, search, query, limit) ==
    DiscoverFound(repo, snaps, uuids, Search(search, query, limit))

\* The module's _service: CustomSearchClient() as its search_client.
VInit ==
    /\ v_repo = <<>>
    /\ v_snaps = <<>>
    /\ v_uuids = 0
    /\ v_search = "CustomSearchClient.search"
    /\ v_calls = <<>>

\* The queries and limits of the requests.
Queries == {"Chopan impact", "Bad actor", "AI lab", ""}

Limits == (0 - 1)..MaxResults

VFrame ==
    UNCHANGED <<impl, pvars, cvars, rvars, ovars, tvars, wvars, kvars, gvars,
                mvars, svars, lvars>>

ProspectCall(op, query, limit, raised) ==
    [op |-> op, query |-> query, limit |-> limit, raised |-> raised]

\* One call of discover(query, limit).
V_Discover ==
    /\ Len(v_calls) < MaxDiscovers
    /\ \E query \in Queries, limit \in Limits :
        \E out \in {ProspectService_discover(v_repo, v_snaps, v_uuids, v_search,
                                             query, limit)} :
            /\ v_repo' = out.repo
            /\ v_snaps' = out.snaps
            /\ v_uuids' = out.uuids
            /\ v_calls' = Append(v_calls,
                                 ProspectCall("discover", query, limit, out.raised))
    /\ UNCHANGED v_search
    /\ VFrame

\* ProspectService.create_snapshot(artifacts): snapshot_store.create.
V_CreateSnapshot ==
    /\ Len(v_calls) < MaxDiscovers
    /\ \E artifacts \in {<<>>, <<SAMPLE_DATA[1]>>} :
        /\ v_snaps' = SnapshotStore_create(v_snaps, v_uuids + 1, artifacts)
        /\ v_uuids' = v_uuids + 1
        /\ v_calls' = Append(v_calls,
                             ProspectCall("create_snapshot", "", Len(artifacts), "None"))
    /\ UNCHANGED <<v_repo, v_search>>
    /\ VFrame

\* ProspectService.restore_snapshot(snapshot_id): self._store[snapshot_id],
\* KeyError when the store has no snapshot of that id.  The ids asked for
\* are those of the snapshots made so far and one that no snapshot has.
V_RestoreSnapshot ==
    /\ Len(v_calls) < MaxDiscovers
    /\ \E snapshot_id \in {v_snaps[i].snapshot_id : i \in 1..Len(v_snaps)}
                              \cup {v_uuids + 1} :
        v_calls' = Append(v_calls,
            ProspectCall("restore_snapshot", "", snapshot_id,
                IF \E i \in 1..Len(v_snaps) : v_snaps[i].snapshot_id = snapshot_id
                    THEN "None" ELSE "KeyError"))
    /\ UNCHANGED <<v_repo, v_snaps, v_uuids, v_search>>
    /\ VFrame

\* monkeypatch.setattr(service.search_client, "search", fake_search), and
\* its undoing when the test is over.
V_Monkeypatch ==
    /\ \E search \in Searches :
        /\ search # v_search
        /\ v_search' = search
    /\ UNCHANGED <<v_repo, v_snaps, v_uuids, v_calls>>
    /\ VFrame

(***************************************************************************)
(* codex_chopan_app: SlidingWindowRateLimiter.allow under concurrent calls *)
(***************************************************************************)
MaxClock == 4

MaxAllows == 4

Callers == {"a", "b"}

LimiterKeys == {"global", "tenant"}

\* The while loop of allow: hits older than the window leave the deque at
\* its left end.
RECURSIVE PopExpired(_, _, _)
PopExpired(hits, now, window_seconds) ==
    IF hits # <<>> /\ now - hits[1] > window_seconds
        THEN PopExpired(Tail(hits), now, window_seconds)
        ELSE hits

\* Variant: the deque may grow one beyond max_requests.
SlidingWindowRateLimiter_allow_OffByOne(hits, now, max_requests, window_seconds) ==
    LET kept == PopExpired(hits, now, window_seconds)
    IN  IF Len(kept) > max_requests
            THEN [hits |-> kept, allowed |-> FALSE]
            ELSE [hits |-> Append(kept, now), allowed |-> TRUE]

\* The body of allow under the lock, for the deque of one key.
SlidingWindowRateLimiter_allow(hits, now, max_requests, window_seconds) ==
    LET kept == PopExpired(hits, now, window_seconds)
    IN  IF Len(kept) >= max_requests
            THEN [hits |-> kept, allowed |-> FALSE]
            ELSE [hits |-> Append(kept, now), allowed |-> TRUE]

LIdle ==
    /\ l_max_requests = 1
    /\ l_window_seconds = 1
    /\ l_clock = 0
    /\ l_hits = [key \in LimiterKeys |-> <<>>]
    /\ l_calls = <<>>

\* SlidingWindowRateLimiter(max_requests, window_seconds)
LInit ==
    /\ l_max_requests \in {1, 2}
    /\ l_window_seconds \in {1, 2}
    /\ l_clock = 0
    /\ l_hits = [key \in LimiterKeys |-> <<>>]
    /\ l_calls = <<>>

LimiterFrame ==
    UNCHANGED <<impl, pvars, cvars, rvars, ovars, tvars, wvars, kvars, gvars,
                mvars, svars, vvars, l_max_requests, l_window_seconds>>

\* The monotonic clock advances.
L_Tick ==
    /\ l_clock < MaxClock
    /\ l_clock' = l_clock + 1
    /\ UNCHANGED <<l_hits, l_calls>>
    /\ LimiterFrame

\* One call of allow(key) by coroutine c.  The coroutines share one event
\* loop, which switches only where an await suspends: Lock.acquire returns
\* at once when the lock is free, and the body under the lock holds no
\* await, so the lock is free whenever a coroutine is scheduled and a call
\* runs from line 20 to its return without another between.
L_Allow(c) ==
    /\ Len(l_calls) < MaxAllows
    /\ \E key \in LimiterKeys :
        LET now == l_clock
            out == SlidingWindowRateLimiter_allow(l_hits[key], now,
                                                  l_max_requests, l_window_seconds)
        IN  /\ l_hits' = [l_hits EXCEPT ![key] = out.hits]
            /\ l_calls' = Append(l_calls, [caller |-> c, key |-> key, now |-> now,
                                           allowed |-> out.allowed])
    /\ UNCHANGED l_clock
    /\ LimiterFrame

XIdle == KIdle /\ GIdle /\ MInit /\ SInit /\ VInit /\ LIdle

EIdle == RIdle /\ OInit /\ TIdle /\ WIdle /\ XIdle

\* One call of run(command, cwd).
R_Run ==
    /\ Len(r_paths) < MaxCalls
    /\ \E command \in Commands, found \in BOOLEAN, launch \in Launches :
        \E out \in {CommandRunner_run(r_logs, r_dry_run, r_policy, command,
                                      found, launch)} :
            /\ r_logs' = out.logs
            /\ r_paths' = Append(r_paths, IF out.raised # NoException THEN NoPath
                                           ELSE out.result.log_path)
            /\ r_last' = [command |-> command, found |-> found,
                          launch |-> launch.kind, called |-> TRUE,
                          launched |-> out.launched, raised |-> out.raised,
                          result |-> out.result]
    /\ UNCHANGED <<impl, pvars, cvars, ovars, tvars, wvars, xvars, r_dry_run, r_policy>>

(***************************************************************************)
(* The run commands: the exit code after execute has returned              *)
(***************************************************************************)
\* kimi_coding_agent/cli/main.py: if result.status is not RunStatus.SUCCEEDED:
\* raise SystemExit(1)
kimi_coding_agent_cli_run_exit(status) == IF status # "succeeded" THEN 1 ELSE 0

\* Variant: exit 1 unless the status is succeeded.
kimi_agent_cli_run_exit_Strict(status) == IF status # "succeeded" THEN 1 ELSE 0

\* kimi_agent/cli.py: if result.status == "failed": sys.exit(1)
kimi_agent_cli_run_exit(status) == IF status = "failed" THEN 1 ELSE 0

(***************************************************************************)
(* The repository: one of its two packages drives runs                     *)
(***************************************************************************)
Impls == {"kimi_coding_agent", "kimi_agent"}

Init ==
    /\ impl \in Impls
    /\ PInit
    /\ CInit
    /\ c_target = NoDir
    /\ impl = "kimi_agent" => p_target = NoDir
    /\ EIdle

PFrame == impl = "kimi_coding_agent" /\ UNCHANGED <<impl, cvars, evars>>

\* kimi_coding_agent/cli/main.py, run: after orchestrator.execute(config) has
\* returned, the summary is printed and SystemExit(1) raised unless the status
\* is succeeded.  An execute that an exception ended returned no result.
P_RunCommandExit ==
    /\ p_pc = "idle"
    /\ p_result # NoResult
    /\ p_result.run_id = p_run
    /\ ~p_exit.called
    /\ p_exit' = [called |-> TRUE, status |-> p_result.status,
                  code |-> kimi_coding_agent_cli_run_exit(p_result.status)]
    /\ UNCHANGED <<p_pc, p_run, p_cfg, p_idx, p_status, p_shared, p_localSteps,
                   p_runs, p_steps, p_artifacts, p_calls, p_target, p_snapshots,
                   p_dist, p_restored, p_packaged, p_writes, p_result>>
    /\ PFrame

\* The statuses of the result RunController.execute returns to the run
\* command of kimi_agent.
RunResultStatuses == {"succeeded", "partial-success", "failed"}

\* kimi_agent/cli.py, run, lines 86-89: after controller.execute has returned,
\* the summary is printed and sys.exit(1) called when the status is "failed".
C_RunCommandExit ==
    /\ impl = "kimi_agent"
    /\ ~c_exit.called
    /\ \E status \in RunResultStatuses :
        c_exit' = [called |-> TRUE, status |-> status,
                   code |-> kimi_agent_cli_run_exit(status)]
    /\ UNCHANGED <<impl, pvars, evars, c_stepId, c_runs, c_steps, c_events,
                   c_target, c_snapshots, c_restores>>

\* A call of the runs table of kimi_agent's store.
DFrame == impl = "kimi_agent"

Next ==
    \/ P_RecordRunStart /\ PFrame
    \/ P_CreateSnapshot /\ PFrame
    \/ P_AgentStep /\ PFrame
    \/ P_Restore /\ PFrame
    \/ P_Package /\ PFrame
    \/ P_RecordArtifact /\ PFrame
    \/ P_CleanupSnapshot /\ PFrame
    \/ P_Finalize /\ PFrame
    \/ P_Propagate /\ PFrame
    \/ P_RunCommandExit
    \/ C_RunCommandExit
    \/ D_RecordRunStart /\ DFrame
    \/ D_RecordRunComplete /\ DFrame

Spec == Init /\ [][Next]_vars

(***************************************************************************)
(* kimi_agent: the steps table under the calls of any client               *)
(***************************************************************************)
MaxSteps == 2

StoreInit == Init /\ impl = "kimi_agent" /\ c_target = NoDir

StoreFrame ==
    UNCHANGED <<impl, pvars, evars, c_runs, c_events, c_target, c_snapshots,
                c_restores, c_exit>>

\* record_step_start(run_id, agent_name, input_payload)
S_RecordStepStart ==
    /\ Cardinality(c_steps) < MaxSteps
    /\ \E run_id \in RunIds, agent_name \in {"coding", "testing"} :
        /\ c_steps' = SQLiteRunStore_record_step_start(c_steps, run_id, agent_name).steps
        /\ c_stepId' = SQLiteRunStore_record_step_start(c_steps, run_id, agent_name).step_id
    /\ StoreFrame

\* record_step_complete(step_id, output_payload, status) with any step_id:
\* the UPDATE rewrites the step of that id whatever its status, and no row
\* when there is none.
S_RecordStepComplete ==
    /\ \E step_id \in 1..MaxSteps, status \in {"succeeded", "failed"} :
        /\ c_steps' = SQLiteRunStore_record_step_complete(
                          c_steps, step_id, AgentResult("coding", status, status),
                          status)
    /\ UNCHANGED c_stepId
    /\ StoreFrame

\* record_step_failed(step_id, error) with any step_id.
S_RecordStepFailed ==
    /\ \E step_id \in 1..MaxSteps :
        /\ c_steps' = SQLiteRunStore_record_step_failed(c_steps, step_id, "error")
    /\ UNCHANGED c_stepId
    /\ StoreFrame

StoreNext == S_RecordStepStart \/ S_RecordStepComplete \/ S_RecordStepFailed

SpecStore == StoreInit /\ [][StoreNext]_vars

(***************************************************************************)
(* kimi_agent: the SQLiteRunStore under any sequence of its operations     *)
(***************************************************************************)
TablesInit == StoreInit

TablesNext ==
    \/ D_RecordRunStart
    \/ D_RecordRunComplete
    \/ D_RecordStepStart
    \/ D_RecordStepComplete
    \/ D_RecordStepFailed
    \/ D_RecordArtifact
    \/ D_RecordEvent

SpecTables == TablesInit /\ [][TablesNext]_vars

(***************************************************************************)
(* kimi_agent: one CommandRunner under the calls of any agent              *)
(***************************************************************************)
BaseIdle ==
    /\ impl = "kimi_agent"
    /\ PInit
    /\ CInit
    /\ p_target = NoDir
    /\ c_target = NoDir

RunnerInit == BaseIdle /\ RInit /\ OInit /\ TIdle /\ WIdle /\ XIdle

RunnerNext == R_Run

SpecRunner == RunnerInit /\ [][RunnerNext]_vars

(***************************************************************************)
(* kimi_agent: one ArtifactPackager.package per list of agent results      *)
(***************************************************************************)
PackagerInit == BaseIdle /\ RIdle /\ OInit /\ TIdle /\ WIdle /\ KInit /\ GIdle /\ MInit /\ SInit /\ VInit /\ LIdle

PackagerNext == K_Package

SpecPackager == PackagerInit /\ [][PackagerNext]_vars

(***************************************************************************)
(* kimi_agent: one OpenAIClient.generate_text per client and environment   *)
(***************************************************************************)
GenerateInit == BaseIdle /\ RIdle /\ OInit /\ TIdle /\ WIdle /\ KIdle /\ GInit /\ MInit /\ SInit /\ VInit /\ LIdle

GenerateNext == G_GenerateText

SpecGenerate == GenerateInit /\ [][GenerateNext]_vars

(***************************************************************************)
(* codex_chopan_app: the email service under any sequence of campaigns     *)
(***************************************************************************)
EmailInit == BaseIdle /\ RIdle /\ OInit /\ TIdle /\ WIdle /\ XIdle

EmailNext == M_CreateCampaign

SpecEmail == EmailInit /\ [][EmailNext]_vars

(***************************************************************************)
(* codex_chopan_app: the prospect service under any sequence of discovers  *)
(***************************************************************************)
ProspectInit == BaseIdle /\ RIdle /\ OInit /\ TIdle /\ WIdle /\ XIdle

ProspectNext == V_Discover \/ V_CreateSnapshot \/ V_RestoreSnapshot \/ V_Monkeypatch

SpecProspect == ProspectInit /\ [][ProspectNext]_vars

(***************************************************************************)
(* codex_chopan_app: one rate limiter under concurrent callers             *)
(***************************************************************************)
LimiterInit ==
    /\ BaseIdle /\ RIdle /\ OInit /\ TIdle /\ WIdle
    /\ KIdle /\ GIdle /\ MInit /\ SInit /\ VInit /\ LInit

LimiterNext ==
    \/ L_Tick
    \/ \E c \in Callers : L_Allow(c)

SpecLimiter == LimiterInit /\ [][LimiterNext]_vars

(***************************************************************************)
(* kimi_agent: one TestingAgent.execute per client and environment         *)
(***************************************************************************)
AnalysisInit == BaseIdle /\ RIdle /\ OInit /\ TInit /\ WIdle /\ XIdle

AnalysisNext == T_Execute

SpecAnalysis == AnalysisInit /\ [][AnalysisNext]_vars

(***************************************************************************)
(* kimi_agent: one WorkspaceManager under the calls of any client          *)
(***************************************************************************)
MaxRestores == 2

\* The files somebody may put into a staged restore directory.
StagedEdits == {"user.txt", "agent_run_report.md"}

WorkspaceFrame ==
    UNCHANGED <<impl, pvars, rvars, ovars, tvars, xvars, c_stepId, c_runs, c_steps,
                c_events, c_target, c_exit>>

WorkspaceInit ==
    /\ impl = "kimi_agent"
    /\ PInit
    /\ CInit
    /\ p_target = NoDir
    /\ EIdle

\* create_snapshot(run_id, target_path): a first archive for the run, or one
\* that replaces the archive made for it before.
W_CreateSnapshot ==
    /\ \E run_id \in RunIds :
        /\ c_target.exists
        /\ c_snapshots' = WorkspaceManager_create_snapshot(c_snapshots, run_id,
                                                           c_target).snapshots
    /\ UNCHANGED <<c_restores, w_staged>>
    /\ WorkspaceFrame

\* The number of calls of stage_restore so far.
StagedCalls ==
    Cardinality({<<r, i>> \in RunIds \X (1..MaxRestores) : i <= Len(w_staged[r])})

\* stage_restore(run_id, snapshot_path) with a handle create_snapshot gave,
\* for this run or for another.
W_StageRestore ==
    /\ \E run_id \in RunIds, made_for \in RunIds :
        LET snapshot_path == SnapshotPath(made_for)
            restores == WorkspaceManager_stage_restore(c_restores, c_snapshots,
                                                       run_id, snapshot_path)
        IN  /\ StagedCalls < MaxRestores
            /\ c_snapshots[made_for].exists
            /\ c_restores' = restores
            /\ w_staged' = [w_staged EXCEPT ![run_id] =
                               Append(@, [snapshot_path |-> snapshot_path,
                                          archive |-> ArchiveAt(c_snapshots,
                                                                snapshot_path),
                                          before |-> c_restores[run_id],
                                          after  |-> restores[run_id]])]
    /\ UNCHANGED c_snapshots
    /\ WorkspaceFrame

\* Somebody writes a file into a staged restore directory that a later
\* stage_restore will find.
W_EditStaged ==
    /\ \E run_id \in RunIds, f \in StagedEdits :
        /\ StagedCalls < MaxRestores
        /\ c_restores[run_id].exists
        /\ c_restores[run_id].files[f] # "edited"
        /\ c_restores' = [c_restores EXCEPT ![run_id].files[f] = "edited"]
    /\ UNCHANGED <<c_snapshots, w_staged>>
    /\ WorkspaceFrame

\* Somebody changes a file of the target, so that the snapshots made
\* before and after differ.
W_EditTarget ==
    /\ StagedCalls < MaxRestores
    /\ c_target.exists
    /\ c_target.files["user.txt"] # "edited"
    /\ c_target' = [c_target EXCEPT !.files["user.txt"] = "edited"]
    /\ UNCHANGED <<impl, pvars, rvars, ovars, tvars, xvars, c_stepId, c_runs, c_steps,
                   c_events, c_exit, c_snapshots, c_restores, w_staged>>

WorkspaceNext == W_CreateSnapshot \/ W_StageRestore \/ W_EditStaged \/ W_EditTarget

SpecWorkspace == WorkspaceInit /\ [][WorkspaceNext]_vars

(***************************************************************************)
(* The two AgentOrchestrator classes with the exceptions execute lets pass *)
(***************************************************************************)
OFrame == impl = "kimi_agent" /\ UNCHANGED <<impl, pvars, cvars, rvars, tvars, wvars, xvars>>

ExecuteInit ==
    /\ impl \in Impls
    /\ PInit
    /\ CInit
    /\ c_target = NoDir
    /\ impl = "kimi_agent" => p_target = NoDir
    /\ EIdle

ExecuteNext ==
    \/ P_RecordRunStart /\ PFrame
    \/ P_CreateSnapshot /\ PFrame
    \/ P_AgentStep /\ PFrame
    \/ P_Restore /\ PFrame
    \/ P_Package /\ PFrame
    \/ P_RecordArtifact /\ PFrame
    \/ P_CleanupSnapshot /\ PFrame
    \/ P_Finalize /\ PFrame
    \/ P_Propagate /\ PFrame
    \/ O_UpsertRunning /\ OFrame
    \/ O_Prepare /\ OFrame
    \/ O_PersonaStep /\ OFrame
    \/ O_PersistSuccess /\ OFrame
    \/ O_Return /\ OFrame
    \/ O_Except /\ OFrame

SpecExecute == ExecuteInit /\ [][ExecuteNext]_vars

(***************************************************************************)
(* Properties of the kimi_coding_agent orchestrator                        *)
(***************************************************************************)
PFinished(r) == p_runs[r].completed_at

CallNames(r) == [i \in 1..Len(p_calls[r]) |-> p_calls[r][i].agent_name]

RaisedAt(r) == {i \in 1..Len(p_calls[r]) : p_calls[r][i].raised}

StepRowsOf(r) == {s \in p_steps : s.run_id = r}

\* C1 as stated: when an agent's call raises, its step is recorded as failed,
\* the run becomes failed, and no later agent of the fixed order is executed.
C1_RaiseFailsStepAndStopsRun ==
    \A r \in RunIds : \A i \in RaisedAt(r) :
        /\ i = Len(p_calls[r])
        /\ \E s \in StepRowsOf(r) :
              /\ s.agent_name = p_calls[r][i].agent_name
              /\ s.status = "failed"
        /\ Cardinality(StepRowsOf(r)) = i
        /\ (r = p_run /\ p_pc # "idle") => p_status = "failed"
        /\ (r # p_run \/ p_pc = "idle") => p_runs[r].status = "failed"

\* C1, amended: when an agent's call raises, no later agent of the fixed
\* order is executed and the status of the run never becomes succeeded.  When
\* what it raised is an Exception and no call execute makes afterwards
\* (record_step, restore_snapshot, finalize_run) raises, its step is recorded
\* as failed and the run ends failed.  A BaseException that is no Exception
\* is not caught: execute ends at once, with no step for that agent and the
\* run row still running; so it ends, with the row running, when a later
\* call raises, without the step when that call was record_step.
C1_RaiseStopsRunAndFailsItUnlessExecuteIsLeft ==
    \A r \in RunIds : \A i \in RaisedAt(r) :
        /\ i = Len(p_calls[r])
        /\ p_runs[r].status \in {"running", "failed"}
        /\ Cardinality(StepRowsOf(r)) \in {i - 1, i}
        /\ Cardinality(StepRowsOf(r)) = i =>
              \E s \in StepRowsOf(r) :
                 /\ s.agent_name = p_calls[r][i].agent_name
                 /\ s.status = "failed"
        /\ p_calls[r][i].base =>
              /\ Cardinality(StepRowsOf(r)) = i - 1
              /\ r \in PropagatedRuns
        /\ ~(r \in PropagatedRuns) =>
              /\ Cardinality(StepRowsOf(r)) = i
              /\ (r = p_run /\ p_pc # "idle") => p_status = "failed"
              /\ (r # p_run \/ p_pc = "idle") =>
                    PFinished(r) /\ p_runs[r].status = "failed"

\* Run 1 ended failed after its second agent raised an Exception; the second
\* agent of run 2 raised a BaseException that left execute: one step row,
\* the run row running.
C1_Witness ==
    /\ PFinished(1)
    /\ Len(p_calls[1]) = 2
    /\ p_calls[1][2].raised /\ ~p_calls[1][2].base
    /\ p_runs[1].status = "failed"
    /\ \E s \in StepRowsOf(1) : s.agent_name = Agents[2] /\ s.status = "failed"
    /\ p_run = 2 /\ p_pc = "idle"
    /\ Len(p_calls[2]) = 2
    /\ p_calls[2][2].raised /\ p_calls[2][2].base
    /\ Cardinality(StepRowsOf(2)) = 1
    /\ p_runs[2].status = "running"

IsPrefixOfAgents(names) ==
    /\ Len(names) <= Len(Agents)
    /\ \A i \in 1..Len(names) : names[i] = Agents[i]

LoadedNames(r) ==
    LET loaded == RunStore_load_run(p_runs, p_steps, r).steps
    IN  [i \in 1..Len(loaded) |-> loaded[i].agent_name]

\* The run has ended: execute returned, or an exception left it.
PEnded(r) == p_runs[r] # NoRow /\ (r # p_run \/ p_pc = "idle")

\* C4 as stated: at the end of any run the steps recorded for it are the
\* agents that were executed, in execution order (all of them when none
\* raised, else the prefix of the fixed order up to and including the one
\* that raised), and load_run returns them in that order.
C4_StepsAreExecutedAgentsInOrder ==
    \A r \in RunIds : PEnded(r) =>
        /\ LoadedNames(r) = CallNames(r)
        /\ IsPrefixOfAgents(LoadedNames(r))
        /\ IF RaisedAt(r) = {}
           THEN Len(LoadedNames(r)) = Len(Agents)
           ELSE RaisedAt(r) = {Len(LoadedNames(r))}

\* C4, amended: at the end of a run that execute returned from, the steps
\* recorded are the agents that were executed, in execution order (all of
\* them when none raised, else the prefix of the fixed order up to and
\* including the one that raised), and load_run and the result hold them in
\* that order.  A run that an exception ended has the steps of the agents
\* executed, a prefix of the fixed order in that order, without the last
\* one when the exception came from its agent.run (a BaseException) or from
\* its record_step.
C4_StepsAreExecutedAgentsButTheOneExecuteLeftAt ==
    \A r \in RunIds : PEnded(r) =>
        /\ IsPrefixOfAgents(CallNames(r))
        /\ RaisedAt(r) \subseteq {Len(CallNames(r))}
        /\ PFinished(r) =>
              /\ LoadedNames(r) = CallNames(r)
              /\ RaisedAt(r) = {} => Len(LoadedNames(r)) = Len(Agents)
              /\ p_result.run_id = r =>
                    [i \in 1..Len(p_result.steps) |-> p_result.steps[i].agent_name]
                        = LoadedNames(r)
        /\ ~PFinished(r) =>
              \/ LoadedNames(r) = CallNames(r)
              \/ /\ CallNames(r) # <<>>
                 /\ LoadedNames(r) = SubSeq(CallNames(r), 1, Len(CallNames(r)) - 1)
        /\ (CallNames(r) # <<>> /\ p_calls[r][Len(p_calls[r])].base) =>
              LoadedNames(r) = SubSeq(CallNames(r), 1, Len(CallNames(r)) - 1)

\* Run 1 returned with the steps of its three executed agents, the third
\* having raised; run 2 was ended by an exception of record_step after its
\* second agent had returned, and has one step.
C4_Witness ==
    /\ PFinished(1)
    /\ Len(LoadedNames(1)) = 3 /\ RaisedAt(1) = {3}
    /\ p_run = 2 /\ p_pc = "idle" /\ ~PFinished(2)
    /\ Len(CallNames(2)) = 2 /\ RaisedAt(2) = {}
    /\ LoadedNames(2) = <<Agents[1]>>

TerminalStatuses == {"succeeded", "partial-success", "failed"}

\* C5 as stated: the status of a run only moves forward: it is written as
\* running once, at the start, its terminal status is written once, at the
\* end, and nothing changes it later; a row is running exactly while its run
\* is in progress.
C5_RunStatusMovesForward ==
    /\ [](\A r \in RunIds :
            \/ p_writes[r] = <<>> /\ p_runs[r] = NoRow
            \/ p_writes[r] = <<"running">>
                 /\ p_runs[r].status = "running" /\ r = p_run /\ p_pc # "idle"
            \/ /\ Len(p_writes[r]) = 2
               /\ p_writes[r][1] = "running"
               /\ p_writes[r][2] \in TerminalStatuses
               /\ p_runs[r].status = p_writes[r][2]
               /\ r = p_run => p_pc = "idle")
    /\ [][\A r \in RunIds :
            /\ c_runs[r].status \in TerminalStatuses => c_runs'[r] = c_runs[r]
            /\ c_runs'[r].status = "running" => c_runs[r].status \in {"none", "running"}]_vars

\* C5, amended: the status of a run only moves forward.  kimi_coding_agent
\* writes running once, at the start, and a terminal status at most once, by
\* the finalize_run that ends an execute that returns; nothing changes it
\* later, and an execute ended by an exception writes no terminal status, so
\* that its row stays running.  The SQLiteRunStore of kimi_agent writes
\* running once per run_id, in record_run_start, and a later status only in
\* record_run_complete, which sets the completion time and overwrites the
\* status of the row each time it is called.
C5_RunStatusMovesForwardOrStaysRunning ==
    /\ [](\A r \in RunIds :
            \/ p_writes[r] = <<>> /\ p_runs[r] = NoRow
            \/ /\ p_writes[r] = <<"running">>
               /\ p_runs[r].status = "running"
               /\ ~p_runs[r].completed_at
               /\ p_result.run_id # r
            \/ /\ Len(p_writes[r]) = 2
               /\ p_writes[r][1] = "running"
               /\ p_writes[r][2] \in TerminalStatuses
               /\ p_runs[r].status = p_writes[r][2]
               /\ p_runs[r].completed_at
               /\ r = p_run => p_pc = "idle" /\ p_result.run_id = r)
    /\ [][\A r \in RunIds :
            /\ c_runs'[r].status = "running" /\ c_runs[r].status # "running" =>
                  /\ c_runs[r] = NoRunRow
                  /\ Calls("record_run_start")
                  /\ ~c_runs'[r].completed_at
            /\ (c_runs'[r] # c_runs[r] /\ c_runs[r] # NoRunRow) =>
                  /\ Calls("record_run_complete")
                  /\ s_calls'[Len(s_calls')].run_id = r
                  /\ c_runs'[r].status \in TerminalStatuses
                  /\ c_runs'[r].completed_at]_vars

\* Run 1 was ended by an exception after it was recorded as running; run 2,
\* executed after it, ended succeeded.
C5_Witness ==
    /\ p_writes[1] = <<"running">> /\ p_runs[1].status = "running"
    /\ p_writes[2] = <<"running", "succeeded">> /\ p_runs[2].status = "succeeded"
    /\ p_runs[2].completed_at
    /\ p_pc = "idle"

(***************************************************************************)
(* Properties of rollback, snapshots and degraded results                  *)
(***************************************************************************)
\* The step of a failed run that rolls back: restore_snapshot, pipeline.py
\* lines 81-82.
PRollbackStep == p_pc = "post" /\ p_status = "failed" /\ p_pc' = "finalize"

\* C2 as stated: the rollback of a failed run leaves the live target
\* directory exactly as the failing run left it.
C2_RollbackLeavesTargetUntouched ==
    [][PRollbackStep => p_target' = p_target]_vars

\* The step after the loop, line 81 or line 84, stages a rollback: the
\* snapshot of the run is extracted and the live target stays as it is.
PStagesRollback == p_run \in p_restored' /\ p_target' = p_target

\* C6 as stated: rollback staging happens exactly in the runs that end
\* failed, and a run that ends failed is never packaged.
C6_RollbackStagingIffFailedAndNoPackaging ==
    [][(p_pc = "post" /\ p_pc' # "idle") =>
          /\ p_status = "failed" <=> PStagesRollback
          /\ p_status = "failed" =>
                /\ ~(p_run \in p_packaged')
                /\ p_dist' = p_dist]_vars

PNoRaise(r) == RaisedAt(r) = {}

PDegraded(r) ==
    \E s \in StepRowsOf(r) : s.payload.status \in {"skipped", "failed"}

\* C3 as stated: a run in which an agent returned a result that is not
\* succeeded, and none raised, executes the remaining agents and ends
\* partial-success.
C3_NonSucceededResultEndsPartialSuccess ==
    \A r \in RunIds :
        (PFinished(r) /\ PNoRaise(r) /\ PDegraded(r)) =>
            /\ CallNames(r) = Agents
            /\ p_runs[r].status = "partial-success"

\* C7 as stated: a run in its agent loop has a snapshot archive, and a run
\* that reached its terminal status has none.
C7_OneSnapshotWhileRunningNoneAfter ==
    \A r \in RunIds :
        /\ (r = p_run /\ p_pc = "loop") => p_snapshots[r].exists
        /\ PFinished(r) => ~p_snapshots[r].exists

\* C8 as stated: a Run row has a packaging path only if its status is
\* succeeded.
C8_PackagingPathOnlyIfSucceeded ==
    \A r \in RunIds :
        c_runs[r].packaging_path # NullText => c_runs[r].status = "succeeded"

\* C9 as stated: a Step row has an output payload if and only if its status
\* is terminal.
C9_OutputPayloadIffTerminal ==
    \A s \in c_steps :
        s.output_payload # NoOutput <=> s.status \in {"succeeded", "failed"}

\* The Step row of id i, before and after a step of the store.
StepRow(steps, i) == CHOOSE row \in steps : row.id = i

\* C9: a running step has no output payload, no error and no completion
\* time, and a succeeded step has an output payload; the output payload of a
\* step is written by record_step_complete only (with the status and the
\* completion time), so a step has one if and only if record_step_complete
\* was applied to it: record_step_failed neither adds nor removes one, and a
\* step it marked failed has an error text with or without an output payload.
C9_OutputPayloadIffCompleted ==
    /\ [](\A s \in c_steps :
            /\ s.status = "running" =>
                  s.output_payload = NoOutput /\ s.error = NullText /\ ~s.completed_at
            /\ s.status # "running" =>
                  /\ s.completed_at
                  /\ s.output_payload # NoOutput \/ s.error # NullText
            /\ s.status = "succeeded" => s.output_payload # NoOutput
            /\ (s.status = "failed" /\ s.output_payload = NoOutput) =>
                  s.error # NullText)
    /\ [][\A s \in c_steps :
            LET t == StepRow(c_steps', s.id)
            IN  /\ s.output_payload # NoOutput => t.output_payload # NoOutput
                /\ t.output_payload # s.output_payload =>
                      /\ t.status = t.output_payload.status
                      /\ t.completed_at
                      /\ t.error = s.error
                /\ t.error # s.error => t.output_payload = s.output_payload]_vars

\* A step marked failed with no output payload, a step completed as failed
\* with one, and a step to which both operations were applied.
C9_Witness ==
    \E s1, s2 \in c_steps :
        /\ s1.status = "failed" /\ s1.error # NullText /\ s1.output_payload = NoOutput
        /\ s2.status = "succeeded" /\ s2.error # NullText /\ s2.output_payload # NoOutput

(***************************************************************************)
(* Properties of the CommandRunner                                         *)
(***************************************************************************)
\* The command starts with a package-install prefix.
IsPackageInstall(command) ==
    \E prefix \in PACKAGE_INSTALL_PREFIXES : HasPrefix(command, prefix)

\* The command starts with a CLI-tool prefix.
IsCliTool(command) ==
    \E prefix \in CLI_TOOL_PREFIXES : HasPrefix(command, prefix)

\* The text holds the line.
Holds(text, line) ==
    \E i \in 1..(Len(text) + 1) :
        /\ i + Len(line) - 1 <= Len(text)
        /\ SubSeq(text, i, i + Len(line) - 1) = line

\* The log file of the last call records its command.
LogRecordsCommand ==
    \E f \in r_logs :
        /\ f.path = r_last.result.log_path
        /\ Holds(f.text, Join(" ", r_last.command))

SuccessShaped(result) ==
    /\ result.skipped
    /\ result.return_code = 0
    /\ result.stdout = ""
    /\ result.stderr = ""

\* C11: a command that starts with a gated prefix whose policy flag is False
\* is skipped with return code 0, empty output and the reason of its gate,
\* whether or not its executable is found, whatever the other flag and
\* whether or not the runner is in dry-run mode.
C11_GatedCommandIsBlocked ==
    r_last.called =>
        /\ IsPackageInstall(r_last.command) /\ ~r_policy.allow_package_installs
            => /\ SuccessShaped(r_last.result)
               /\ r_last.result.reason = "blocked-package-install"
        /\ IsCliTool(r_last.command) /\ ~r_policy.allow_cli_tools
            => /\ SuccessShaped(r_last.result)
               /\ r_last.result.reason = "blocked-cli"

\* A package install is blocked although its executable is not found and
\* CLI tools are allowed.
C11_Witness ==
    /\ r_last.called
    /\ r_last.command = <<"npm", "install">>
    /\ ~r_last.found
    /\ ~r_policy.allow_package_installs
    /\ r_policy.allow_cli_tools
    /\ r_last.result.reason = "blocked-package-install"
    /\ r_last.result.return_code = 0

\* C12 as stated: in dry-run mode every call of run is skipped with the
\* reason dry-run and return code 0, and its log records the command.
C12_DryRunReasonIsAlwaysDryRun ==
    r_last.called /\ r_dry_run =>
        /\ SuccessShaped(r_last.result)
        /\ r_last.result.reason = "dry-run"
        /\ LogRecordsCommand

\* C12: in dry-run mode every call of run is skipped with return code 0 and
\* empty output and its log records the command; the reason is dry-run
\* unless the command is empty, blocked by the policy or its executable is
\* not found by the lookup, and then it is the reason of that skip.
C12_DryRunAlwaysSkips ==
    r_last.called /\ r_dry_run =>
        LET command == r_last.command
            reason  == r_last.result.reason
        IN  /\ SuccessShaped(r_last.result)
            /\ LogRecordsCommand
            /\ command = <<>> => reason = "empty-command"
            /\ IsPackageInstall(command) /\ ~r_policy.allow_package_installs
                => reason = "blocked-package-install"
            /\ IsCliTool(command) /\ ~r_policy.allow_cli_tools
                => reason = "blocked-cli"
            /\ reason \in {"dry-run", "empty-command", "blocked-package-install",
                           "blocked-cli", "missing-executable"}
            /\ reason = "missing-executable" => ~r_last.found
            /\ reason = "dry-run" =>
                /\ command # <<>>
                /\ command[1] \in {"python", "py"} \/ r_last.found

\* A dry-run call skipped for a missing executable, not for the dry run.
C12_Witness ==
    /\ r_last.called
    /\ r_dry_run
    /\ r_last.command = <<"npm", "run", "test", "--", "--watch=false">>
    /\ r_last.result.reason = "missing-executable"
    /\ r_last.result.return_code = 0
    /\ Len(r_paths) = 2

\* C13 as stated: a missing executable is reported as skipped with the
\* reason missing-executable and return code 127, whichever of the lookup
\* and the launch detected it.
C13_MissingExecutableReturns127 ==
    r_last.called /\ r_last.result.reason = "missing-executable" =>
        /\ r_last.result.skipped
        /\ r_last.result.return_code = 127

\* C14 as stated: every call of run writes exactly one new log file, whose
\* path differs from the paths of all earlier calls, and the paths are
\* numbered 01, 02, 03, ... in call order.
C14_OneNewNumberedLogPerCall ==
    /\ Cardinality(r_logs) = Len(r_paths)
    /\ \A i \in 1..Len(r_paths) :
        /\ SubSeq(r_paths[i], 1, 3) = Format02d(i) \o "-"
        /\ \E f \in r_logs : f.path = r_paths[i]
    /\ \A i, j \in 1..Len(r_paths) : i # j => r_paths[i] # r_paths[j]

(***************************************************************************)
(* Properties of execute under exceptions                                  *)
(***************************************************************************)
\* C15: execute returns normally only after the Run row has a terminal
\* status and its completion time; every other way out of a started run
\* is an exception that reaches the caller.
C15_ReturnsOnlyAfterTerminalRow ==
    /\ \A r \in RunIds :
        /\ p_result.run_id = r =>
            /\ p_runs[r].status \in {"succeeded", "failed"}
            /\ p_runs[r].completed_at
            /\ p_runs[r].status = p_result.status
        /\ p_runs[r].status = "running" /\ (p_run # r \/ p_pc = "idle")
            => p_result.run_id # r
    /\ o_outcome = "returned" => o_row = "succeeded"
    /\ o_pc = "done" /\ o_row = "running" => o_outcome = "raised"

\* Both ways out: run 1 returned with its row finalized as failed, run 2 was
\* left running by an exception that reached the caller.
C15_Witness ==
    /\ p_runs[1].status = "failed"
    /\ p_runs[1].completed_at
    /\ p_run = 2
    /\ p_pc = "idle"
    /\ p_runs[2].status = "running"
    /\ p_result.run_id = 1

(***************************************************************************)
(* Properties of the Step rows                                             *)
(***************************************************************************)
\* C17 as stated: after record_step_complete or record_step_failed has been
\* applied to a step, no later operation changes its row; a Step row of
\* kimi_coding_agent is inserted with its final status and stays.
C17_StepsCompleteOnceAndStay ==
    [][/\ \A s \in p_steps : s \in p_steps'
       /\ \A s \in c_steps : s.status # "running" => s \in c_steps']_vars

AnalysisCallFails ==
    /\ t_client.enabled
    /\ ~t_client.dry_run
    /\ t_env.api_key
    /\ t_env.sdk # "ok" \/ t_env.create = "raises"

\* C19 as stated: when the language-model call of the analysis fails, the
\* TestingAgent still returns its result, with no analysis.
C19_AnalysisFailureGivesNoAnalysis ==
    t_out.called /\ AnalysisCallFails =>
        /\ t_out.raised = NoException
        /\ t_out.status = TestingAgentStatus(t_env.tests).agent_status
        /\ t_out.analysis = NoAnalysis

(***************************************************************************)
(* Properties of the WorkspaceManager                                      *)
(***************************************************************************)
\* C20: every stage_restore of a run leaves in restores/<run_id> exactly
\* the files of the snapshot it was given, the same as an earlier call with
\* that snapshot left, whatever was added to or changed in the staged
\* directory since.
C20_StageRestoreIsIdempotent ==
    \A r \in RunIds :
        \A i \in 1..Len(w_staged[r]) :
            /\ w_staged[r][i].after = Dir(w_staged[r][i].archive.files)
            /\ \A j \in 1..i :
                  (/\ w_staged[r][j].snapshot_path = w_staged[r][i].snapshot_path
                   /\ w_staged[r][j].archive = w_staged[r][i].archive)
                      => w_staged[r][i].after = w_staged[r][j].after

\* A second stage_restore found a file the snapshot does not hold, and a
\* changed one, in the staged directory, and left neither.
C20_Witness ==
    /\ Len(w_staged[1]) = 2
    /\ w_staged[1][1].snapshot_path = SnapshotPath(1)
    /\ w_staged[1][2].snapshot_path = SnapshotPath(1)
    /\ w_staged[1][2].archive = w_staged[1][1].archive
    /\ w_staged[1][1].archive.files["user.txt"] = UserContent
    /\ w_staged[1][1].archive.files["agent_run_report.md"] = Absent
    /\ w_staged[1][2].before.files["user.txt"] = "edited"
    /\ w_staged[1][2].before.files["agent_run_report.md"] = "edited"
    /\ w_staged[1][2].after = w_staged[1][1].after
    /\ c_restores[1] = w_staged[1][1].after

(***************************************************************************)
(* C21: for every agent result and every JSON-typed artifact passed to     *)
(* ArtifactPackager.package, the archive holds the entry                   *)
(* artifacts/<agent>/<file>, the entry deserializes to the payload that    *)
(* was passed in, and PackagingResult.files lists it.                      *)
(***************************************************************************)
\* The JSON-typed artifacts of the results passed to package.
JsonArtifacts ==
    { <<i, filename>> \in (1..Len(k_results)) \X ArtifactFilenames :
        /\ filename \in DOMAIN k_results[i].artifacts
        /\ IsJsonArtifact(filename, k_results[i].artifacts[filename]) }

PayloadOf(a) == k_results[a[1]].artifacts[a[2]].payload

EntryOf(a) == ArtifactEntry(k_results[a[1]].name, a[2])

\* The archive holds the entry of artifact a as JSON that reads back as value.
EntryReadsAs(a, value) ==
    /\ EntryOf(a) \in DOMAIN k_out.archive
    /\ EntryOf(a) \in k_out.files
    /\ k_out.archive[EntryOf(a)].format = "json"
    /\ json_loads(k_out.archive[EntryOf(a)].doc) = value

\* C21 as stated: every JSON-typed artifact has its entry, which reads back
\* as the payload passed in.
C21_EveryJsonArtifactRoundTrips ==
    k_out # NoBundle => \A a \in JsonArtifacts : EntryReadsAs(a, PayloadOf(a))

\* C21 amended: a JSON-typed artifact whose payload is None has no entry, in
\* the archive or in files; every other JSON-typed artifact has its entry,
\* listed in files, and the entry reads back as the payload with each tuple
\* read as a list.
C21_JsonArtifactWithPayloadRoundTrips ==
    k_out # NoBundle =>
        \A a \in JsonArtifacts :
            IF PayloadOf(a) = PyNone
                THEN /\ EntryOf(a) \notin DOMAIN k_out.archive
                     /\ EntryOf(a) \notin k_out.files
                ELSE EntryReadsAs(a,
                        IF PayloadOf(a).py = "tuple"
                            THEN [py |-> "list", v |-> PayloadOf(a).v]
                            ELSE PayloadOf(a))

C21_Witness ==
    /\ k_out # NoBundle
    /\ Len(k_results) = 2
    /\ DOMAIN k_results[1].artifacts = {"dependencies.json"}
    /\ k_results[1].artifacts["dependencies.json"].payload = PyNone
    /\ DOMAIN k_results[2].artifacts = {"report"}
    /\ k_results[2].artifacts["report"].type = "application/json"
    /\ k_results[2].artifacts["report"].payload.py = "dict"
    /\ "artifacts/coding/dependencies.json" \notin k_out.files
    /\ json_loads(k_out.archive["artifacts/testing/report"].doc)
         = [py |-> "dict", v |-> <<"status", "passed">>]

(***************************************************************************)
(* C22: OpenAIClient.generate_text, enabled and with the API key set,      *)
(* sends a request that holds only the model and the prompt as input,      *)
(* temperature and max_output_tokens omitted, and returns the output text  *)
(* of the response.                                                        *)
(***************************************************************************)
C22_RequestHoldsOnlyModelAndPrompt ==
    (/\ g_out.called
     /\ g_client.enabled
     /\ ~g_client.dry_run
     /\ g_env.api_key
     /\ g_env.sdk = "ok"
     /\ g_env.create = "text")
        => /\ Len(g_out.requests) = 1
           /\ DOMAIN g_out.requests[1] = {"model", "input"}
           /\ g_out.requests[1]["model"] = g_client.model
           /\ g_out.requests[1]["input"] = "prompt"
           /\ g_out.result = TextReturned("verdict")

(***************************************************************************)
(* C23: EmailService.create_campaign never passes an address of the        *)
(* request's suppression list to the mail client, and the campaign's       *)
(* suppressed list is exactly the audience addresses that are on the       *)
(* suppression list, in audience order.                                    *)
(***************************************************************************)
\* The elements of seq that are in set S, in the order of seq.
RECURSIVE Restrict(_, _)
Restrict(seq, S) ==
    IF seq = <<>> THEN <<>>
    ELSE IF seq[1] \in S THEN <<seq[1]>> \o Restrict(Tail(seq), S)
    ELSE Restrict(Tail(seq), S)

ListSet(list) == { list[i] : i \in 1..Len(list) }

C23_SuppressedAreNeverMailed ==
    \A n \in 1..Len(m_calls) :
        LET request == m_calls[n].request
            campaign == m_calls[n].campaign
        IN  /\ \A i \in 1..Len(m_sent) :
                m_sent[i].campaign_id = campaign.campaign_id =>
                    ListSet(m_sent[i].recipients)
                        \cap ListSet(request.suppression_list) = {}
            /\ campaign.suppressed
                 = Restrict(request.audience_segment, ListSet(request.suppression_list))
            /\ m_campaigns[campaign.campaign_id] = campaign

C23_Witness ==
    /\ Len(m_calls) = 1
    /\ m_calls[1].request.audience_segment
         = <<"two@example.com", "one@example.com", "two@example.com">>
    /\ m_calls[1].request.suppression_list = <<"two@example.com">>
    /\ m_calls[1].campaign.suppressed = <<"two@example.com", "two@example.com">>
    /\ Len(m_sent) = 1
    /\ m_sent[1].recipients = <<"one@example.com">>

(***************************************************************************)
(* C24: when the k-th agent of a kimi_coding_agent run starts, the shared  *)
(* context holds exactly the outputs of agents 1..k-1 completed earlier in *)
(* the same run, nothing of a later agent or of another run, and the       *)
(* agent adds only the entry under its own name.                           *)
(***************************************************************************)
\* shared_state as the agent at position k of run r must find it: the payload
\* of the step this run recorded for each earlier agent, nothing else.
SharedBefore(r, k) ==
    [a \in AgentNames |->
        IF \E j \in 1..(k - 1) : Agents[j] = a
            THEN LET j == CHOOSE j \in 1..(k - 1) : Agents[j] = a
                 IN  p_localSteps[j].payload
            ELSE NoPayload]

C24_ContextHoldsExactlyEarlierOutputs ==
    [][p_pc = "loop" =>
         /\ Len(p_localSteps) = p_idx - 1
         /\ p_shared = SharedBefore(p_run, p_idx)
         /\ \A j \in 1..(p_idx - 1) :
              /\ p_localSteps[j].agent_name = Agents[j]
              /\ p_localSteps[j].status = "succeeded"
              /\ p_localSteps[j].payload # NoPayload
              /\ \E row \in p_steps :
                    /\ row.run_id = p_run
                    /\ row.agent_name = Agents[j]
                    /\ row.payload = p_shared[Agents[j]]
         /\ p_pc' # "idle" =>
              \A a \in AgentNames \ {Agents[p_idx]} : p_shared'[a] = p_shared[a]]_vars

C24_Witness ==
    /\ p_pc = "loop"
    /\ p_run = 2
    /\ p_idx = 4
    /\ p_shared["testing"] = TestingContext("failed")
    /\ p_shared["documentation"] = NoPayload
    /\ \E row \in p_steps :
          /\ row.run_id = 1
          /\ row.agent_name = "testing"
          /\ row.payload = TestingContext("succeeded")
    /\ \E row \in p_steps : row.run_id = 1 /\ row.agent_name = "documentation"

(***************************************************************************)
(* C25: recording a step, an artifact or an event never changes or deletes *)
(* a row of table runs; only record_run_start and record_run_complete      *)
(* write that table, and no operation of the store removes a run.          *)
(***************************************************************************)
C25_OnlyRunOperationsWriteRuns ==
    [][/\ \A op \in {"record_step_start", "record_step_complete",
                     "record_step_failed", "record_artifact", "record_event"} :
            Calls(op) => c_runs' = c_runs
       /\ c_runs' # c_runs => Calls("record_run_start") \/ Calls("record_run_complete")
       /\ \A r \in RunIds : c_runs[r] # NoRunRow => c_runs'[r] # NoRunRow]_vars

C25_Witness ==
    /\ Len(s_calls) = 4
    /\ s_calls[1].op = "record_run_start" /\ s_calls[1].run_id = 1
    /\ s_calls[2].op = "record_step_start" /\ s_calls[2].run_id = 1
    /\ s_calls[3].op = "record_artifact" /\ s_calls[3].run_id = 1
    /\ s_calls[4].op = "record_event" /\ s_calls[4].run_id = 1
    /\ c_runs[1].status = "running"
    /\ c_runs[2] = NoRunRow

(***************************************************************************)
(* C29: SQLiteRunStore.record_run_start with a run_id the table already    *)
(* holds fails with a uniqueness error and leaves the row of that run and  *)
(* all its steps, artifacts and events unchanged.                          *)
(***************************************************************************)
C29_DuplicateRunStartFailsAndChangesNothing ==
    [][\A r \in RunIds :
         (/\ Calls("record_run_start")
          /\ s_calls'[Len(s_calls')].run_id = r
          /\ c_runs[r] # NoRunRow)
            => /\ s_calls'[Len(s_calls')].raised = "IntegrityError"
               /\ c_runs' = c_runs
               /\ c_steps' = c_steps
               /\ s_artifacts' = s_artifacts
               /\ c_events' = c_events]_vars

C29_Witness ==
    /\ Len(s_calls) = 4
    /\ s_calls[1] = StoreCall("record_run_start", 1, "None")
    /\ s_calls[2] = StoreCall("record_run_complete", 1, "None")
    /\ s_calls[3] = StoreCall("record_event", 1, "None")
    /\ s_calls[4] = StoreCall("record_run_start", 1, "IntegrityError")
    /\ c_runs[1].status = "succeeded"
    /\ c_runs[1].completed_at
    /\ Len(c_events) = 1

(***************************************************************************)
(* C26: CommandRunner.run launches a child process only when dry-run is    *)
(* off, the command is non-empty, no policy gate blocks it, and the lookup *)
(* of the executable succeeded or the executable is python or py; in every *)
(* other case no process is spawned and the result has skipped=True.       *)
(***************************************************************************)
\* The conditions of C26 for the last call.
MayLaunch ==
    /\ ~r_dry_run
    /\ r_last.command # <<>>
    /\ ~(IsPackageInstall(r_last.command) /\ ~r_policy.allow_package_installs)
    /\ ~(IsCliTool(r_last.command) /\ ~r_policy.allow_cli_tools)
    /\ (r_last.found \/ r_last.command[1] \in {"python", "py"})

C26_LaunchesOnlyWhenNothingForbids ==
    r_last.called =>
        /\ r_last.launched => MayLaunch
        /\ ~MayLaunch => ~r_last.launched /\ r_last.result.skipped

\* A call that passed every check and started its process, next to the log
\* of an earlier call.
C26_Witness ==
    /\ r_last.called
    /\ ~r_dry_run
    /\ r_last.command = <<"python", "-m", "pip", "install", "-r", "requirements.txt">>
    /\ ~r_last.found
    /\ r_policy.allow_package_installs
    /\ r_last.launched
    /\ r_last.launch = "completed"
    /\ ~r_last.result.skipped
    /\ Len(r_paths) = 2

(***************************************************************************)
(* C28: in kimi_coding_agent, after a run that ends failed the target      *)
(* workspace holds exactly the files and contents it had when the snapshot *)
(* was taken: what the agents wrote is removed, what was there before is   *)
(* restored.                                                               *)
(***************************************************************************)
\* Step by step, in an execute that goes on (one that an exception ends does
\* not end failed): the snapshot is the target as create_snapshot found it;
\* the agents leave the snapshot alone; the restore of a failed run makes the
\* target equal to the snapshot; nothing changes the target afterwards, so
\* the step that ends the run failed leaves the target equal to the snapshot.
C28_FailedRunLeavesTargetAsSnapshotted ==
    [][/\ (p_pc = "snapshot" /\ p_pc' # "idle") =>
            /\ p_target'.exists
            /\ p_snapshots'[p_run] = p_target'
       /\ p_pc = "loop" => p_snapshots'[p_run] = p_snapshots[p_run]
       /\ (p_pc = "post" /\ p_status = "failed" /\ p_pc' # "idle") =>
            /\ p_target' = p_snapshots[p_run]
            /\ p_snapshots' = p_snapshots
       /\ (p_pc = "finalize" /\ p_status = "failed") =>
            /\ p_target' = p_target
            /\ p_target = p_snapshots[p_run]
            /\ p_snapshots' = p_snapshots]_vars

\* A failed run is over: the documentation agent raised after the coding
\* agent had overwritten the user's agent_plan.json and the testing agent
\* had written test_plan.json; the target is as it was before the run.
C28_Witness ==
    /\ p_pc = "idle"
    /\ p_run = 1
    /\ p_runs[1].completed_at
    /\ p_runs[1].status = "failed"
    /\ Len(p_calls[1]) = 4
    /\ p_calls[1][4].raised
    /\ p_target.files["user.txt"] = UserContent
    /\ p_target.files["agent_plan.json"] = UserContent
    /\ p_target.files["test_plan.json"] = Absent
    /\ p_snapshots[1] = p_target

(***************************************************************************)
(* C30: a ProspectService.discover call that raises because the website of *)
(* a search result is not an allowed domain leaves the prospect repository *)
(* and the snapshot store exactly as they were before the call.            *)
(***************************************************************************)
C30_RejectedDiscoverChangesNothing ==
    [][(/\ Len(v_calls') = Len(v_calls) + 1
        /\ v_calls'[Len(v_calls')].op = "discover"
        /\ v_calls'[Len(v_calls')].raised = "HTTPException")
          => /\ v_repo' = v_repo
             /\ v_snaps' = v_snaps]_vars

\* The two tests in their order: discover("Chopan impact", 2) saved two
\* prospects and a snapshot, then discover("Bad actor", 1) with the search
\* replaced raised, and the repository and the snapshot store hold what they
\* held.
C30_Witness ==
    /\ Len(v_calls) = 2
    /\ v_calls[1] = ProspectCall("discover", "Chopan impact", 2, "None")
    /\ v_calls[2] = ProspectCall("discover", "Bad actor", 1, "HTTPException")
    /\ v_search = "fake_search"
    /\ DOMAIN v_repo = {"Chopan Foundation", "Global Arts Alliance"}
    /\ Len(v_snaps) = 1

(***************************************************************************)
(* C27: under any interleaving of concurrent allow calls, for each key no  *)
(* more than max_requests of the calls that returned True have timestamps  *)
(* within any span of window_seconds; a call that returned False records   *)
(* no hit and never delays a later admission.                              *)
(***************************************************************************)
\* The timestamps of the calls for key that returned True.
Admitted(calls, key) ==
    SelectSeq(calls, LAMBDA call : call.key = key /\ call.allowed)

\* No span [t, t + window_seconds] holds more than max_requests admissions.
WithinLimit(calls) ==
    \A key \in LimiterKeys : \A t \in 0..MaxClock :
        Cardinality({i \in 1..Len(Admitted(calls, key)) :
                        /\ t <= Admitted(calls, key)[i].now
                        /\ Admitted(calls, key)[i].now <= t + l_window_seconds})
            <= l_max_requests

IsSuffix(s, t) == Len(s) <= Len(t) /\ s = SubSeq(t, Len(t) - Len(s) + 1, Len(t))

C27_AdmissionsStayWithinLimit ==
    [][/\ WithinLimit(l_calls')
       /\ (/\ Len(l_calls') = Len(l_calls) + 1
           /\ ~l_calls'[Len(l_calls')].allowed)
            => \A key \in LimiterKeys : IsSuffix(l_hits'[key], l_hits[key])]_vars

\* Two coroutines call at the same instant; with max_requests 1 the first
\* is admitted and the second refused, and refused again when the hit is
\* exactly window_seconds old; once the window has passed a call is
\* admitted, the refusals having left no hit behind.
C27_Witness ==
    /\ l_max_requests = 1
    /\ l_window_seconds = 2
    /\ Len(l_calls) = 4
    /\ l_calls[1] = [caller |-> "a", key |-> "global", now |-> 0, allowed |-> TRUE]
    /\ l_calls[2] = [caller |-> "b", key |-> "global", now |-> 0, allowed |-> FALSE]
    /\ l_calls[3] = [caller |-> "b", key |-> "global", now |-> 2, allowed |-> FALSE]
    /\ l_calls[4] = [caller |-> "a", key |-> "global", now |-> 3, allowed |-> TRUE]
    /\ l_hits["global"] = <<3>>

====
